---------------------------- MODULE Spec2Model ----------------------------
(***************************************************************************)
(* A model of the rag_assistant chat bot (src/main.py, src/config.py):     *)
(* the query preprocessor, the hybrid retriever, the conversational RAG    *)
(* pipeline and the chat handlers with their per-chat state.               *)
(*                                                                         *)
(* Text is modelled as Python str values: a string is a sequence of        *)
(* characters, a character is a one-character TLA+ string.  The module     *)
(* is ASCII, so a Cyrillic letter is written by a transliterated name:     *)
(* "ru_a" .. "ru_ya" are the 33 lower-case letters of the Russian          *)
(* alphabet, "RU_A" .. "RU_YA" their upper-case forms, and "uk_yi" /       *)
(* "UK_YI" is the Ukrainian letter yi (U+0457 / U+0407), a letter of the   *)
(* Cyrillic script that the Russian alphabet does not have.                *)
(***************************************************************************)
EXTENDS Naturals, Sequences, FiniteSets, TLC

VARIABLES
  prep,                 \* the run of preprocess_query_for_retrieval under test: its locals
  user_chat_histories,  \* chat id -> the list object stored for it (NoList: no key)
  lists,                \* the list objects: object -> its messages
  chat_data,            \* chat id -> context.chat_data of the chat
  ragas_data_pool,      \* the global list of logged interactions
  vectorstore,          \* the store handle the retriever holds
  tasks,                \* the handler tasks in flight: slot -> locals and position
  running,              \* the task inside a blocking call on the loop's thread, 0: none
  received,             \* chat id -> the number of text messages it has sent
  budget,               \* what the run has used of its bounds
  issued_before_start,  \* chat id -> the interaction ids recorded before its last /start
  startup               \* the startup run under test: its position and what it obtained

vars ==
  <<prep, user_chat_histories, lists, chat_data, ragas_data_pool, vectorstore, tasks,
    running, received, budget, issued_before_start, startup>>

botvars ==
  <<user_chat_histories, lists, chat_data, ragas_data_pool, vectorstore, tasks,
    running, received, budget, issued_before_start>>

(***************************************************************************)
(* Characters and the str methods the program uses.                        *)
(***************************************************************************)
RussianLower ==
  {"ru_a", "ru_b", "ru_v", "ru_g", "ru_d", "ru_e", "ru_yo", "ru_zh", "ru_z", "ru_i", "ru_j",
   "ru_k", "ru_l", "ru_m", "ru_n", "ru_o", "ru_p", "ru_r", "ru_s", "ru_t", "ru_u", "ru_f",
   "ru_kh", "ru_ts", "ru_ch", "ru_sh", "ru_shch", "ru_hard", "ru_y", "ru_soft", "ru_eh",
   "ru_yu", "ru_ya"}

RussianUpper ==
  {"RU_A", "RU_B", "RU_V", "RU_G", "RU_D", "RU_E", "RU_YO", "RU_ZH", "RU_Z", "RU_I", "RU_J",
   "RU_K", "RU_L", "RU_M", "RU_N", "RU_O", "RU_P", "RU_R", "RU_S", "RU_T", "RU_U", "RU_F",
   "RU_KH", "RU_TS", "RU_CH", "RU_SH", "RU_SHCH", "RU_HARD", "RU_Y", "RU_SOFT", "RU_EH",
   "RU_YU", "RU_YA"}

LatinLower ==
  {"a", "b", "c", "d", "e", "f", "g", "h", "i", "j", "k", "l", "m", "n", "o", "p", "q", "r",
   "s", "t", "u", "v", "w", "x", "y", "z"}

LatinUpper ==
  {"A", "B", "C", "D", "E", "F", "G", "H", "I", "J", "K", "L", "M", "N", "O", "P", "Q", "R",
   "S", "T", "U", "V", "W", "X", "Y", "Z"}

LowerPairs ==
  {<<"A", "a">>, <<"B", "b">>, <<"C", "c">>, <<"D", "d">>, <<"E", "e">>, <<"F", "f">>,
   <<"G", "g">>, <<"H", "h">>, <<"I", "i">>, <<"J", "j">>, <<"K", "k">>, <<"L", "l">>,
   <<"M", "m">>, <<"N", "n">>, <<"O", "o">>, <<"P", "p">>, <<"Q", "q">>, <<"R", "r">>,
   <<"S", "s">>, <<"T", "t">>, <<"U", "u">>, <<"V", "v">>, <<"W", "w">>, <<"X", "x">>,
   <<"Y", "y">>, <<"Z", "z">>, <<"RU_A", "ru_a">>, <<"RU_B", "ru_b">>, <<"RU_V", "ru_v">>,
   <<"RU_G", "ru_g">>, <<"RU_D", "ru_d">>, <<"RU_E", "ru_e">>, <<"RU_YO", "ru_yo">>,
   <<"RU_ZH", "ru_zh">>, <<"RU_Z", "ru_z">>, <<"RU_I", "ru_i">>, <<"RU_J", "ru_j">>,
   <<"RU_K", "ru_k">>, <<"RU_L", "ru_l">>, <<"RU_M", "ru_m">>, <<"RU_N", "ru_n">>,
   <<"RU_O", "ru_o">>, <<"RU_P", "ru_p">>, <<"RU_R", "ru_r">>, <<"RU_S", "ru_s">>,
   <<"RU_T", "ru_t">>, <<"RU_U", "ru_u">>, <<"RU_F", "ru_f">>, <<"RU_KH", "ru_kh">>,
   <<"RU_TS", "ru_ts">>, <<"RU_CH", "ru_ch">>, <<"RU_SH", "ru_sh">>, <<"RU_SHCH", "ru_shch">>,
   <<"RU_HARD", "ru_hard">>, <<"RU_Y", "ru_y">>, <<"RU_SOFT", "ru_soft">>,
   <<"RU_EH", "ru_eh">>, <<"RU_YU", "ru_yu">>, <<"RU_YA", "ru_ya">>, <<"UK_YI", "uk_yi">>}

CyrillicOtherLower == {"uk_yi"}

CyrillicOtherUpper == {"UK_YI"}

Digits == {"0", "1", "2", "3", "4", "5", "6", "7", "8", "9"}

Whitespace == {" ", "\t"}

Letters ==
  LatinLower \cup LatinUpper \cup RussianLower \cup RussianUpper
    \cup CyrillicOtherLower \cup CyrillicOtherUpper

\* the lower-case form of every upper-case letter
LowerTable ==
  [c \in {p[1] : p \in LowerPairs} |-> (CHOOSE p \in LowerPairs : p[1] = c)[2]]

\* str.lower() on one character
LowerChar(c) == IF c \in DOMAIN LowerTable THEN LowerTable[c] ELSE c

\* str.lower()
Lower(s) == [i \in 1..Len(s) |-> LowerChar(s[i])]

\* str.isalnum on one character
IsAlnum(c) == c \in Letters \cup Digits

\* ''.join(filter(str.isalnum, token))
FilterAlnum(s) == SelectSeq(s, IsAlnum)

RECURSIVE LStrip(_)
\* str.lstrip()
LStrip(s) ==
  IF s # <<>> /\ Head(s) \in Whitespace THEN LStrip(Tail(s)) ELSE s

RECURSIVE RStrip(_)
\* str.rstrip()
RStrip(s) ==
  IF s # <<>> /\ s[Len(s)] \in Whitespace
    THEN RStrip(SubSeq(s, 1, Len(s) - 1))
    ELSE s

\* str.strip()
Strip(s) == RStrip(LStrip(s))

RECURSIVE SplitFrom(_, _, _)
\* the scan of str.split(): cur is the token being read, done the tokens read
SplitFrom(s, cur, done) ==
  IF s = <<>>
    THEN IF cur = <<>> THEN done ELSE Append(done, cur)
    ELSE IF Head(s) \in Whitespace
           THEN SplitFrom(Tail(s), <<>>, IF cur = <<>> THEN done ELSE Append(done, cur))
           ELSE SplitFrom(Tail(s), Append(cur, Head(s)), done)

\* str.split() with no separator: the whitespace-delimited tokens, none empty
Split(s) == SplitFrom(s, <<>>, <<>>)

RECURSIVE Join(_, _)
\* sep.join(parts)
Join(parts, sep) ==
  IF parts = <<>> THEN <<>>
  ELSE IF Len(parts) = 1 THEN parts[1]
  ELSE parts[1] \o sep \o Join(Tail(parts), sep)

\* the elements of a sequence, as a set
Range(seq) == {seq[i] : i \in 1..Len(seq)}

\* list(a_set): every order in which a Python set may be iterated
Enumerations(S) ==
  {f \in [1..Cardinality(S) -> S] : \A x \in S : \E i \in 1..Cardinality(S) : f[i] = x}

(***************************************************************************)
(* src/config.py                                                           *)
(***************************************************************************)
SYNONYM_MAP ==
  <<
  \* course: program, study plan, module
  [key  |-> <<"c", "o", "u", "r", "s", "e">>,
   syns |-> <<
         <<"p", "r", "o", "g", "r", "a", "m">>,
         <<"s", "t", "u", "d", "y", " ", "p", "l", "a", "n">>,
         <<"m", "o", "d", "u", "l", "e">> >>],
  \* courses: programs, study plans, modules
  [key  |-> <<"c", "o", "u", "r", "s", "e", "s">>,
   syns |-> <<
         <<"p", "r", "o", "g", "r", "a", "m", "s">>,
         <<"s", "t", "u", "d", "y", " ", "p", "l", "a", "n", "s">>,
         <<"m", "o", "d", "u", "l", "e", "s">> >>],
  \* deadline: due date, submission date
  [key  |-> <<"d", "e", "a", "d", "l", "i", "n", "e">>,
   syns |-> <<
         <<"d", "u", "e", " ", "d", "a", "t", "e">>,
         <<"s", "u", "b", "m", "i", "s", "s", "i", "o", "n", " ", "d", "a", "t", "e">> >>],
  \* application: admission, enrollment
  [key  |-> <<"a", "p", "p", "l", "i", "c", "a", "t", "i", "o", "n">>,
   syns |-> <<
         <<"a", "d", "m", "i", "s", "s", "i", "o", "n">>,
         <<"e", "n", "r", "o", "l", "l", "m", "e", "n", "t">> >>],
  \* GSOM: Graduate School of Management, GSOM SPbU, VSHM   (Cyrillic transliterated)
  [key  |-> <<"G", "S", "O", "M">>,
   syns |-> <<
         <<"G", "r", "a", "d", "u", "a", "t", "e", " ", "S", "c", "h", "o", "o", "l", " ",
           "o", "f", " ", "M", "a", "n", "a", "g", "e", "m", "e", "n", "t">>,
         <<"G", "S", "O", "M", " ", "S", "P", "b", "U">>,
         <<"RU_V", "RU_SH", "RU_M">> >>],
  \* SPbU: Saint Petersburg State University, SPbGU   (Cyrillic transliterated)
  [key  |-> <<"S", "P", "b", "U">>,
   syns |-> <<
         <<"S", "a", "i", "n", "t", " ", "P", "e", "t", "e", "r", "s", "b", "u", "r", "g",
           " ", "S", "t", "a", "t", "e", " ", "U", "n", "i", "v", "e", "r", "s", "i", "t",
           "y">>,
         <<"RU_S", "RU_P", "ru_b", "RU_G", "RU_U">> >>],
  \* MiBA: Master in Business Analytics and Big Data, Miba   (Cyrillic transliterated)
  [key  |-> <<"M", "i", "B", "A">>,
   syns |-> <<
         <<"M", "a", "s", "t", "e", "r", " ", "i", "n", " ", "B", "u", "s", "i", "n", "e",
           "s", "s", " ", "A", "n", "a", "l", "y", "t", "i", "c", "s", " ", "a", "n", "d",
           " ", "B", "i", "g", " ", "D", "a", "t", "a">>,
         <<"RU_M", "ru_i", "ru_b", "ru_a">> >>],
  \* ML: Machine Learning, mashinnoe obuchenie   (Cyrillic transliterated)
  [key  |-> <<"M", "L">>,
   syns |-> <<
         <<"M", "a", "c", "h", "i", "n", "e", " ", "L", "e", "a", "r", "n", "i", "n", "g">>,
         <<"ru_m", "ru_a", "ru_sh", "ru_i", "ru_n", "ru_n", "ru_o", "ru_e", " ", "ru_o",
           "ru_b", "ru_u", "ru_ch", "ru_e", "ru_n", "ru_i", "ru_e">> >>],
  \* AI: Artificial Intelligence, iskusstvennyj intellekt   (Cyrillic transliterated)
  [key  |-> <<"A", "I">>,
   syns |-> <<
         <<"A", "r", "t", "i", "f", "i", "c", "i", "a", "l", " ", "I", "n", "t", "e", "l",
           "l", "i", "g", "e", "n", "c", "e">>,
         <<"ru_i", "ru_s", "ru_k", "ru_u", "ru_s", "ru_s", "ru_t", "ru_v", "ru_e", "ru_n",
           "ru_n", "ru_y", "ru_j", " ", "ru_i", "ru_n", "ru_t", "ru_e", "ru_l", "ru_l",
           "ru_e", "ru_k", "ru_t">> >>],
  \* ML: Machine Learning, mashinnoe obuchenie   (Cyrillic transliterated)
  [key  |-> <<"RU_M", "RU_L">>,
   syns |-> <<
         <<"M", "a", "c", "h", "i", "n", "e", " ", "L", "e", "a", "r", "n", "i", "n", "g">>,
         <<"ru_m", "ru_a", "ru_sh", "ru_i", "ru_n", "ru_n", "ru_o", "ru_e", " ", "ru_o",
           "ru_b", "ru_u", "ru_ch", "ru_e", "ru_n", "ru_i", "ru_e">> >>],
  \* II: Artificial Intelligence, iskusstvennyj intellekt   (Cyrillic transliterated)
  [key  |-> <<"RU_I", "RU_I">>,
   syns |-> <<
         <<"A", "r", "t", "i", "f", "i", "c", "i", "a", "l", " ", "I", "n", "t", "e", "l",
           "l", "i", "g", "e", "n", "c", "e">>,
         <<"ru_i", "ru_s", "ru_k", "ru_u", "ru_s", "ru_s", "ru_t", "ru_v", "ru_e", "ru_n",
           "ru_n", "ru_y", "ru_j", " ", "ru_i", "ru_n", "ru_t", "ru_e", "ru_l", "ru_l",
           "ru_e", "ru_k", "ru_t">> >>],
  \* exam: examination, test, assessment, ehkzamen, test   (Cyrillic transliterated)
  [key  |-> <<"e", "x", "a", "m">>,
   syns |-> <<
         <<"e", "x", "a", "m", "i", "n", "a", "t", "i", "o", "n">>,
         <<"t", "e", "s", "t">>,
         <<"a", "s", "s", "e", "s", "s", "m", "e", "n", "t">>,
         <<"ru_eh", "ru_k", "ru_z", "ru_a", "ru_m", "ru_e", "ru_n">>,
         <<"ru_t", "ru_e", "ru_s", "ru_t">> >>],
  \* schedule: timetable, academic calendar, raspisanie, kalendarsoft   (Cyrillic transliterated)
  [key  |-> <<"s", "c", "h", "e", "d", "u", "l", "e">>,
   syns |-> <<
         <<"t", "i", "m", "e", "t", "a", "b", "l", "e">>,
         <<"a", "c", "a", "d", "e", "m", "i", "c", " ", "c", "a", "l", "e", "n", "d", "a",
           "r">>,
         <<"ru_r", "ru_a", "ru_s", "ru_p", "ru_i", "ru_s", "ru_a", "ru_n", "ru_i", "ru_e">>,
         <<"ru_k", "ru_a", "ru_l", "ru_e", "ru_n", "ru_d", "ru_a", "ru_r", "ru_soft">> >>],
  \* raspisanie: timetable, academic calendar, raspisanie, kalendarsoft   (Cyrillic transliterated)
  [key  |-> <<"ru_r", "ru_a", "ru_s", "ru_p", "ru_i", "ru_s", "ru_a", "ru_n", "ru_i", "ru_e">>,
   syns |-> <<
         <<"t", "i", "m", "e", "t", "a", "b", "l", "e">>,
         <<"a", "c", "a", "d", "e", "m", "i", "c", " ", "c", "a", "l", "e", "n", "d", "a",
           "r">>,
         <<"ru_r", "ru_a", "ru_s", "ru_p", "ru_i", "ru_s", "ru_a", "ru_n", "ru_i", "ru_e">>,
         <<"ru_k", "ru_a", "ru_l", "ru_e", "ru_n", "ru_d", "ru_a", "ru_r", "ru_soft">> >>],
  \* obmen: vklyuchennoe obuchenie, included learning, programma obmena, outgoing, exchange   (Cyrillic transliterated)
  [key  |-> <<"ru_o", "ru_b", "ru_m", "ru_e", "ru_n">>,
   syns |-> <<
         <<"ru_v", "ru_k", "ru_l", "ru_yu", "ru_ch", "ru_e", "ru_n", "ru_n", "ru_o",
           "ru_e", " ", "ru_o", "ru_b", "ru_u", "ru_ch", "ru_e", "ru_n", "ru_i", "ru_e">>,
         <<"i", "n", "c", "l", "u", "d", "e", "d", " ", "l", "e", "a", "r", "n", "i", "n",
           "g">>,
         <<"ru_p", "ru_r", "ru_o", "ru_g", "ru_r", "ru_a", "ru_m", "ru_m", "ru_a", " ",
           "ru_o", "ru_b", "ru_m", "ru_e", "ru_n", "ru_a">>,
         <<"o", "u", "t", "g", "o", "i", "n", "g">>,
         <<"e", "x", "c", "h", "a", "n", "g", "e">> >>],
  \* exchange program: included learning, vklyuchennoe obuchenie   (Cyrillic transliterated)
  [key  |-> <<"e", "x", "c", "h", "a", "n", "g", "e", " ", "p", "r", "o", "g", "r", "a", "m">>,
   syns |-> <<
         <<"i", "n", "c", "l", "u", "d", "e", "d", " ", "l", "e", "a", "r", "n", "i", "n",
           "g">>,
         <<"ru_v", "ru_k", "ru_l", "ru_yu", "ru_ch", "ru_e", "ru_n", "ru_n", "ru_o",
           "ru_e", " ", "ru_o", "ru_b", "ru_u", "ru_ch", "ru_e", "ru_n", "ru_i", "ru_e">> >>],
  \* practice: practical training, internship
  [key  |-> <<"p", "r", "a", "c", "t", "i", "c", "e">>,
   syns |-> <<
         <<"p", "r", "a", "c", "t", "i", "c", "a", "l", " ", "t", "r", "a", "i", "n", "i",
           "n", "g">>,
         <<"i", "n", "t", "e", "r", "n", "s", "h", "i", "p">> >>],
  \* praktika: practical training, internship   (Cyrillic transliterated)
  [key  |-> <<"ru_p", "ru_r", "ru_a", "ru_k", "ru_t", "ru_i", "ru_k", "ru_a">>,
   syns |-> <<
         <<"p", "r", "a", "c", "t", "i", "c", "a", "l", " ", "t", "r", "a", "i", "n", "i",
           "n", "g">>,
         <<"i", "n", "t", "e", "r", "n", "s", "h", "i", "p">> >>]
  >>
FALLBACK_SENTENCE ==
  <<"B", "a", "s", "e", "d", " ", "o", "n", " ", "m", "y", " ", "k", "n", "o", "w", "l",
    "e", "d", "g", "e", " ", "d", "a", "t", "a", "b", "a", "s", "e", ",", " ", "I", " ",
    "c", "o", "u", "l", "d", " ", "n", "o", "t", " ", "f", "i", "n", "d", " ", "s", "p",
    "e", "c", "i", "f", "i", "c", " ", "i", "n", "f", "o", "r", "m", "a", "t", "i", "o",
    "n", " ", "a", "b", "o", "u", "t", " ", "t", "h", "a", "t", ".", " ", "P", "l", "e",
    "a", "s", "e", ",", " ", "p", "u", "s", "h", " ", "t", "h", "e", " ", "\"", "H", "e",
    "l", "p", "\"", " ", "b", "u", "t", "t", "o", "n", " ", "a", "n", "d", " ", "c", "o",
    "n", "t", "a", "c", "t", " ", "t", "h", "e", " ", "O", "f", "f", "i", "c", "e", ".">>

(***************************************************************************)
(* preprocess_query_for_retrieval                                          *)
(***************************************************************************)

\* is_russian without the lower-casing of the query
IsRussianNoLower(q) == \E i \in 1..Len(q) : q[i] \in RussianLower

\* is_russian: any(c in "<the 33 lower-case Russian letters>" for c in query.lower())
IsRussian(q) == \E i \in 1..Len(q) : LowerChar(q[i]) \in RussianLower

\* translation_instruction: the direction asked of the LLM
TranslationInstruction(is_russian) ==
  IF is_russian THEN "Russian to English" ELSE "English to Russian"

\* f"{primary}, {translated_text}" if translated_text else primary
WithTranslation(primary, translated_text) ==
  IF translated_text # <<>> THEN primary \o <<",", " ">> \o translated_text ELSE primary

RECURSIVE Flatten(_)
\* the concatenation of a sequence of sequences
Flatten(seqs) == IF seqs = <<>> THEN <<>> ELSE Head(seqs) \o Flatten(Tail(seqs))

\* map_key.lower() of every key of SYNONYM_MAP
LoweredKeys == [k \in 1..Len(SYNONYM_MAP) |-> Lower(SYNONYM_MAP[k].key)]

\* The synonyms of one token: those of every key of SYNONYM_MAP whose lower-case
\* form equals the token with its non-alphanumeric characters removed, lower-cased.
SynonymsOfToken(token) ==
  LET cleaned_token_lower == Lower(FilterAlnum(token))
  IN  Flatten([k \in 1..Len(SYNONYM_MAP) |->
                 IF LoweredKeys[k] = cleaned_token_lower
                   THEN SYNONYM_MAP[k].syns ELSE <<>>])

\* The synonyms the nested loops visit, in the order they visit them.
CandidateSynonyms(query) ==
  LET tokens == Split(query)
  IN  Flatten([t \in 1..Len(tokens) |-> SynonymsOfToken(tokens[t])])

\* The test that guards appended_synonyms.add(syn): the lower-cased synonym is
\* no element of words_in_primary and not the lower-case form of one already added.
ShouldAppend(syn, words_in_primary, appended_synonyms) ==
  /\ Lower(syn) \notin Range(words_in_primary)
  /\ Lower(syn) \notin {Lower(s) : s \in appended_synonyms}

RECURSIVE AppendFrom(_, _, _)
\* the loop body over the visited synonyms, accumulating appended_synonyms
AppendFrom(cands, words_in_primary, appended_synonyms) ==
  IF cands = <<>> THEN appended_synonyms
  ELSE AppendFrom(Tail(cands), words_in_primary,
                  IF ShouldAppend(Head(cands), words_in_primary, appended_synonyms)
                    THEN appended_synonyms \cup {Head(cands)}
                    ELSE appended_synonyms)

\* appended_synonyms after the synonym step on primary_lang_query_part
AppendedSynonyms(query) ==
  AppendFrom(CandidateSynonyms(query), Split(Lower(query)), {})

\* expanded_primary_query, for one iteration order of appended_synonyms
ExpandedPrimary(query, order) == query \o <<" ">> \o Join(order, <<" ">>)

\* final_query_for_retrieval as composed before the fallback test
ComposedQuery(query, translated_text, order) ==
  IF order # <<>>
    THEN WithTranslation(ExpandedPrimary(query, order), translated_text)
    ELSE WithTranslation(query, translated_text)

\* the value returned once the query is composed: the fallback, then the strip
ReturnedQuery(user_query, final_query_for_retrieval) ==
  IF Strip(final_query_for_retrieval) = <<>>
    THEN Strip(user_query)
    ELSE Strip(final_query_for_retrieval)

\* the locals of a run of preprocess_query_for_retrieval that has not begun
NoPrep ==
  [pc |-> "idle", user_query |-> <<>>, llm |-> FALSE, is_russian |-> FALSE,
   instruction |-> "", translated_text |-> <<>>, appended |-> {}, expanded |-> <<>>,
   final |-> <<>>, result |-> <<>>, again |-> {}]

\* no startup run is under test
NoStartup == [pc |-> "none"]

(***************************************************************************)
(* The chat handlers and their state                                       *)
(***************************************************************************)

\* the number of chats
NumChats == 2

\* the number of handler tasks that can be in flight at once
MaxTasks == 2

\* the number of updates (text messages, /start commands, button presses)
\* received during a run
MaxUpdates == 3

\* the number of them that are presses of a feedback button
MaxCallbacks == 1

\* the number of external calls of a run whose outcome is not the usual one
\* (a failure, an empty result, an answer the context does not ground)
MaxDeviations == 1

\* the number of turns a chat that is not new has already had answered
PriorTurns == 9

\* the slice [-20:] keeps this many messages
HISTORY_WINDOW == 20

Chats == 1..NumChats

Slots == 1..MaxTasks

\* the list objects alive at once: one stored per chat, one held per task, one
\* being made
Objs == 1..(NumChats + MaxTasks + 1)

\* no list object: the chat id is no key of user_chat_histories
NoList == 0

DigitChars == <<"0", "1", "2", "3", "4", "5", "6", "7", "8", "9">>

\* str(n) for 0 <= n < 100, two digits
TwoDigits(n) == <<DigitChars[(n \div 10) + 1], DigitChars[(n % 10) + 1]>>

\* update.message.text of the n-th text message of a chat: every message has
\* a text of its own
UserText(n) == <<"q">> \o TwoDigits(n)

\* str(uuid.uuid4()) for the n-th message of chat c: a fresh identifier, with
\* hyphens and no underscore
Uuid(c, n) == <<"u">> \o TwoDigits(c) \o <<"-">> \o TwoDigits(n)

\* an answer that is neither empty nor the fallback sentence
GroundedAnswer == <<"a", "n", "s">>

\* what the answer-synthesis LLM call may return
AnswerTexts == {<<>>, FALLBACK_SENTENCE, GroundedAnswer}

\* a retrieved chunk: its metadata
SampleDoc == [title |-> <<"T">>, source_file_key |-> <<"d", "/", "f">>]

\* what a search that finds something returns (document, score)
SearchHits == <<[doc |-> SampleDoc, score |-> 1]>>

HumanMessage(content) == [type |-> "human", content |-> content]

AIMessage(content) == [type |-> "ai", content |-> content]

\* s[-n:]
LastN(s, n) == IF Len(s) <= n THEN s ELSE SubSeq(s, Len(s) - n + 1, Len(s))

\* s[:n]
FirstN(s, n) == IF Len(s) <= n THEN s ELSE SubSeq(s, 1, n)

\* current_chat_history after extend([HumanMessage(question), AIMessage(answer)])
ExtendedHistory(history, question, answer) ==
  history \o <<HumanMessage(question), AIMessage(answer)>>

\* a slice that keeps the first messages instead of the last
OldestSlice(history) == FirstN(history, HISTORY_WINDOW)

\* current_chat_history[-20:], the list stored back
HistorySlice(history) == LastN(history, HISTORY_WINDOW)

\* 'feedback': None
NoFeedback == [recorded |-> FALSE, sentiment |-> <<>>]

\* context.chat_data['interactions'][interaction_id]
InteractionRecord(question, preprocessed, answer, docs) ==
  [question |-> question, preprocessed_question |-> preprocessed, answer |-> answer,
   contexts_docs |-> docs, feedback |-> NoFeedback]

\* the entry appended to ragas_data_pool
PoolEntry(id, question, preprocessed, answer, docs, c) ==
  [interaction_id |-> id, question |-> question, preprocessed_question |-> preprocessed,
   answer |-> answer, contexts |-> docs, chat_id |-> c, feedback |-> NoFeedback]

\* context.chat_data of a chat that has no 'interactions' key
NoChatData == [has_interactions |-> FALSE, interactions |-> <<>>]

(***************************************************************************)
(* OpenSearchHybridSearchRetriever                                         *)
(***************************************************************************)

\* A search outcome is [raised |-> BOOLEAN, hits |-> (document, score) pairs];
\* a retriever call gives [docs, raised, error_logged, store]: the list it
\* returns, whether it raised instead, whether it logged an error, and the
\* store handle as it leaves it.
\* the documents of the (document, score) pairs
StripScores(hits) == [i \in 1..Len(hits) |-> hits[i].doc]

\* getattr(self.vectorstore, 'is_hybrid_search', False)
FlagOn(store) == "is_hybrid_search" \in DOMAIN store /\ store.is_hybrid_search

\* a check that leaves the flag as it finds it
HybridAsFound(store) == store

\* The check before the search (385-387, 404-406): unless the handle has
\* is_hybrid_search and it is true, the attribute is set to True.
HybridEnsured(store) ==
  IF ~FlagOn(store)
    THEN [a \in DOMAIN store \cup {"is_hybrid_search"} |->
            IF a = "is_hybrid_search" THEN TRUE ELSE store[a]]
    ELSE store

\* a retriever that lets the failure of the search through
RaisingRetriever(store, outcome) ==
  [docs |-> StripScores(outcome.hits), raised |-> outcome.raised,
   error_logged |-> FALSE,
   searched |-> HybridEnsured(store), store |-> HybridEnsured(store)]

\* _get_relevant_documents: the flag is ensured, the search is called on the
\* handle (`searched` is the handle as the search finds it), any exception
\* gives []
GetRelevantDocuments(store, outcome) ==
  [docs |-> IF outcome.raised THEN <<>> ELSE StripScores(outcome.hits),
   raised |-> FALSE,
   error_logged |-> outcome.raised,
   searched |-> HybridEnsured(store), store |-> HybridEnsured(store)]

\* _aget_relevant_documents: as above; the search awaited is the store's
\* coroutine when it has one, else the blocking search run in the executor
AGetRelevantDocuments(store, outcome) ==
  [docs |-> IF outcome.raised THEN <<>> ELSE StripScores(outcome.hits),
   raised |-> FALSE,
   error_logged |-> outcome.raised,
   searched |-> HybridEnsured(store), store |-> HybridEnsured(store)]

(***************************************************************************)
(* State of the running bot                                                *)
(***************************************************************************)

\* a task slot with no handler in it (history_before remembers the messages of
\* the chat's history when the handler took it)
NoTask ==
  [pc |-> "idle", chat |-> 0, n |-> 0, text |-> <<>>, hist |-> NoList,
   preprocessed |-> <<>>, contexts |-> <<>>, answer |-> <<>>, interaction_id |-> <<>>,
   search_error |-> FALSE, data |-> <<>>, reply |-> "", history_before |-> <<>>]

\* the list objects something refers to: the values of user_chat_histories and
\* the current_chat_history of the tasks in flight
Referenced(histories, tks) ==
  ({histories[c] : c \in Chats} \cup {tks[t].hist : t \in Slots}) \ {NoList}

\* a list object nothing refers to (the lowest, so that equal heaps are equal states)
FreeObj(histories, tks) ==
  CHOOSE o \in Objs :
    /\ o \notin Referenced(histories, tks)
    /\ \A p \in Objs : p \notin Referenced(histories, tks) => o <= p

\* reference counting: a list nothing refers to is gone
Collect(ls, histories, tks) ==
  [o \in Objs |-> IF o \in Referenced(histories, tks) THEN ls[o] ELSE <<>>]

\* the first idle slot
FreeSlot == CHOOSE t \in Slots : tasks[t].pc = "idle" /\ \A u \in 1..(t - 1) : tasks[u].pc # "idle"

NoHandlerInFlight == \A t \in Slots : tasks[t].pc = "idle"

\* whether the run may still take k outcomes that are not the usual one
MayDeviate(k) == budget.deviations + k <= MaxDeviations

Deviated(k) == [budget EXCEPT !.deviations = @ + k]

\* the translation the LLM usually gives
UsualTranslation == <<"t", "r">>

\* the outcomes of the translation request inside preprocess_query_for_retrieval:
\* a text, nothing (ask_llm_for_metadata caught the failure), or an exception
\* that ask_llm_for_metadata does not catch
TranslationOutcomes ==
  {[raised |-> FALSE, text |-> UsualTranslation],
   [raised |-> FALSE, text |-> <<>>],
   [raised |-> TRUE, text |-> <<>>]}

\* the outcomes of the search call: hits, no hit, an exception
SearchOutcomes ==
  {[raised |-> FALSE, hits |-> SearchHits],
   [raised |-> FALSE, hits |-> <<>>],
   [raised |-> TRUE, hits |-> <<>>]}

\* the outcomes of the answer-synthesis call: a text, an exception
AnswerOutcomes ==
  {[raised |-> FALSE, text |-> a] : a \in AnswerTexts} \cup {[raised |-> TRUE, text |-> <<>>]}

\* Whether an outcome of the answer-synthesis call is a usual one: a grounded
\* answer from a context, any text when there is no context to answer from.
UsualAnswer(contexts, out) ==
  /\ ~out.raised
  /\ contexts # <<>> => out.text = GroundedAnswer

\* preprocessed_query when the translation arrives and no synonym is appended
UsualPreprocessed(text) == ReturnedQuery(text, ComposedQuery(text, UsualTranslation, <<>>))

\* create_history_aware_retriever: with an empty chat_history the input goes
\* straight to the retriever, else the LLM rewrites it first
ChainEntry(chat_history) == IF chat_history = <<>> THEN "retrieving" ELSE "rewriting"

RECURSIVE PriorHistory(_)
\* the stored history of a chat after k answered turns
PriorHistory(k) ==
  IF k = 0 THEN <<>>
  ELSE HistorySlice(ExtendedHistory(PriorHistory(k - 1), UserText(k), GroundedAnswer))

\* the interaction table of chat c after k answered turns
PriorInteractions(c, k) ==
  [id \in {Uuid(c, n) : n \in 1..k} |->
     LET n == CHOOSE m \in 1..k : Uuid(c, m) = id
     IN  InteractionRecord(UserText(n), UsualPreprocessed(UserText(n)), GroundedAnswer,
                           StripScores(SearchHits))]

\* the entries chat c logged in k answered turns
PriorPool(c, k) ==
  [n \in 1..k |->
     PoolEntry(Uuid(c, n), UserText(n), UsualPreprocessed(UserText(n)), GroundedAnswer,
               StripScores(SearchHits), c)]

RECURSIVE PoolOfChats(_, _)
\* the pool after the chats 1..c had their prior turns, chat after chat
PoolOfChats(c, prior) ==
  IF c = 0 THEN <<>> ELSE PoolOfChats(c - 1, prior) \o PriorPool(c, prior[c])

\* The bot has started polling: rag_chain and llm are set, the store handle has
\* hybrid search on.  Chat c has had prior[c] turns answered, one after the
\* other, each from a retrieved chunk with a grounded answer.
BotStart(prior) ==
    /\ user_chat_histories = [c \in Chats |-> IF prior[c] = 0 THEN NoList ELSE c]
    /\ lists = [o \in Objs |-> IF o \in Chats THEN PriorHistory(prior[o]) ELSE <<>>]
    /\ chat_data = [c \in Chats |->
                      IF prior[c] = 0 THEN NoChatData
                      ELSE [has_interactions |-> TRUE,
                            interactions |-> PriorInteractions(c, prior[c])]]
    /\ ragas_data_pool = PoolOfChats(NumChats, prior)
    /\ vectorstore = [is_hybrid_search |-> TRUE]
    /\ tasks = [t \in Slots |-> NoTask]
    /\ running = 0
    /\ received = prior
    /\ budget = [updates |-> 0, callbacks |-> 0, deviations |-> 0]
    /\ issued_before_start = [c \in Chats |-> {}]

\* The first chat has had PriorTurns turns answered, the others are new.
BotInit == BotStart([c \in Chats |-> IF c = 1 THEN PriorTurns ELSE 0])

Init == BotInit /\ prep = NoPrep /\ startup = NoStartup

(***************************************************************************)
(* One run of preprocess_query_for_retrieval on a sample query, followed   *)
(* by a second application of the synonym step to its own output.          *)
(***************************************************************************)

\* the most tokens a sample query is made of
MaxQueryTokens == 2

\* Sample tokens: the empty piece (it yields leading, trailing and doubled
\* spaces and the blank queries), a key in another case, one of its synonyms
\* followed by a comma, an upper-case Russian key whose synonyms have several
\* words, a lower-case Russian word, and a Cyrillic letter outside the
\* Russian alphabet.
QueryTokens ==
  { <<>>,
    <<"A", "p", "p", "l", "i", "c", "a", "t", "i", "o", "n">>,
    <<"a", "d", "m", "i", "s", "s", "i", "o", "n", ",">>,
    <<"RU_M", "RU_L">>,
    <<"ru_d", "ru_a">>,
    <<"uk_yi">> }

\* the sample queries: up to MaxQueryTokens sample tokens joined by single spaces
Queries ==
  {Join(toks, <<" ">>) : toks \in UNION {[1..n -> QueryTokens] : n \in 0..MaxQueryTokens}}

\* what the translation call may return: nothing (a failed or empty
\* completion) or a stripped, non-empty text
Translations == {<<>>, <<"t", "r">>}

PrepInit ==
  /\ \E q \in Queries, has_llm \in BOOLEAN :
       prep = [NoPrep EXCEPT !.pc = "called", !.user_query = q, !.llm = has_llm]
  /\ BotStart([c \in Chats |-> 0])
  /\ startup = NoStartup

\* lines 491-510: the early return without an LLM, else the language test and
\* the translation request
PrepCall ==
  /\ prep.pc = "called"
  /\ UNCHANGED <<botvars, startup>>
  /\ IF ~prep.llm
       THEN prep' = [prep EXCEPT !.pc = "returned", !.result = prep.user_query]
       ELSE prep' = [prep EXCEPT !.pc = "translating",
                                 !.is_russian = IsRussian(prep.user_query),
                                 !.instruction = TranslationInstruction(IsRussian(prep.user_query))]

\* lines 510-542: the translation arrives, the synonyms are appended in some
\* iteration order of the set, the query is composed and returned
PrepReturn ==
  /\ prep.pc = "translating"
  /\ UNCHANGED <<botvars, startup>>
  /\ \E translated_text \in Translations :
       LET appended == AppendedSynonyms(prep.user_query)
       IN  \E order \in Enumerations(appended) :
             LET final == ComposedQuery(prep.user_query, translated_text, order)
             IN  prep' = [prep EXCEPT
                            !.pc = "returned",
                            !.translated_text = translated_text,
                            !.appended = appended,
                            !.expanded = IF order # <<>>
                                           THEN ExpandedPrimary(prep.user_query, order)
                                           ELSE prep.user_query,
                            !.final = final,
                            !.result = ReturnedQuery(prep.user_query, final)]

\* the synonym step applied to the output of the synonym step
PrepReapply ==
  /\ prep.pc = "returned"
  /\ prep.llm
  /\ UNCHANGED <<botvars, startup>>
  /\ prep' = [prep EXCEPT !.pc = "reapplied", !.again = AppendedSynonyms(prep.expanded)]

PrepNext == PrepCall \/ PrepReturn \/ PrepReapply

PrepSpec == PrepInit /\ [][PrepNext]_vars

(***************************************************************************)
(* handle_text_message, one action per stretch between two suspensions     *)
(***************************************************************************)

\* the task in slot t ends: its locals are dropped
Ended(t) == [tasks EXCEPT ![t] = NoTask]

\* the task in slot t moves to position pc
At(t, pc) == [tasks EXCEPT ![t].pc = pc]

\* A text message arrives in chat c (574-585): the chat gets an empty history if
\* it has none, the handler takes a reference to the stored list and sends the
\* "processing" message.
HandleTextMessage(c) ==
  /\ running = 0
  /\ budget.updates < MaxUpdates
  /\ \E t \in Slots : tasks[t].pc = "idle"
  /\ LET t == FreeSlot
         n == received[c] + 1
         o == IF user_chat_histories[c] = NoList
                THEN FreeObj(user_chat_histories, tasks)
                ELSE user_chat_histories[c]
     IN  /\ user_chat_histories' = [user_chat_histories EXCEPT ![c] = o]
         /\ tasks' = [tasks EXCEPT ![t] =
                        [NoTask EXCEPT !.pc = "processing_msg", !.chat = c, !.n = n,
                                       !.text = UserText(n), !.hist = o,
                                       !.history_before = lists[o]]]
         /\ received' = [received EXCEPT ![c] = n]
         /\ budget' = [budget EXCEPT !.updates = @ + 1]
  /\ UNCHANGED <<prep, startup, issued_before_start,
                 lists, chat_data, ragas_data_pool, vectorstore, running>>

\* The "processing" message is sent (585); the handler calls
\* preprocess_query_for_retrieval, which posts the translation request with
\* requests.post and waits for the response on the loop's thread (588, 510).
\* If the send fails the exception leaves the handler.
ProcessingMsgSent(t) ==
  /\ running = 0
  /\ tasks[t].pc = "processing_msg"
  /\ \/ /\ tasks' = At(t, "translating")
        /\ running' = t
        /\ UNCHANGED <<lists, budget>>
     \/ /\ MayDeviate(1)
        /\ budget' = Deviated(1)
        /\ tasks' = Ended(t)
        /\ lists' = Collect(lists, user_chat_histories, Ended(t))
        /\ UNCHANGED running
  /\ UNCHANGED <<prep, startup, issued_before_start,
                 user_chat_histories, chat_data, ragas_data_pool, vectorstore, received>>

\* The translation request returns (510-542, 588-595).  The query is composed
\* and rag_chain.ainvoke is awaited; if preprocessing raised, the original text
\* is used and a warning is sent first (589-592).
TranslationReturns(t) ==
  /\ running = t
  /\ tasks[t].pc = "translating"
  /\ \E out \in TranslationOutcomes :
       /\ IF out = [raised |-> FALSE, text |-> UsualTranslation]
            THEN UNCHANGED budget
            ELSE MayDeviate(1) /\ budget' = Deviated(1)
       /\ IF out.raised
            THEN tasks' = [tasks EXCEPT ![t].pc = "query_warning_msg",
                                        ![t].preprocessed = tasks[t].text]
            ELSE \E order \in Enumerations(AppendedSynonyms(tasks[t].text)) :
                   tasks' = [tasks EXCEPT
                               ![t].pc = ChainEntry(lists[tasks[t].hist]),
                               ![t].preprocessed =
                                  ReturnedQuery(tasks[t].text,
                                                ComposedQuery(tasks[t].text, out.text, order))]
  /\ running' = 0
  /\ UNCHANGED <<prep, startup, issued_before_start,
                 user_chat_histories, lists, chat_data, ragas_data_pool, vectorstore,
                 received>>

\* The warning is sent (592) and rag_chain.ainvoke is awaited (595).  If the
\* send fails the exception leaves the handler.
QueryWarningSent(t) ==
  /\ running = 0
  /\ tasks[t].pc = "query_warning_msg"
  /\ \/ /\ tasks' = At(t, ChainEntry(lists[tasks[t].hist]))
        /\ UNCHANGED <<lists, budget>>
     \/ /\ MayDeviate(1)
        /\ budget' = Deviated(1)
        /\ tasks' = Ended(t)
        /\ lists' = Collect(lists, user_chat_histories, Ended(t))
  /\ UNCHANGED <<prep, startup, issued_before_start,
                 user_chat_histories, chat_data, ragas_data_pool, vectorstore, running,
                 received>>

\* REWRITE: the LLM call that rewrites the query returns; an exception ends
\* ainvoke and is caught at 642.
RewriteReturns(t) ==
  /\ running = 0
  /\ tasks[t].pc = "rewriting"
  /\ \/ /\ tasks' = At(t, "retrieving")
        /\ UNCHANGED budget
     \/ /\ MayDeviate(1)
        /\ budget' = Deviated(1)
        /\ tasks' = At(t, "error_msg")
  /\ UNCHANGED <<prep, startup, issued_before_start,
                 user_chat_histories, lists, chat_data, ragas_data_pool, vectorstore,
                 running, received>>

\* RETRIEVE: the search the retriever awaits returns or raises (400-428); what
\* the retriever returns is the context, and an exception it lets through ends
\* ainvoke.
SearchReturns(t) ==
  /\ running = 0
  /\ tasks[t].pc = "retrieving"
  /\ \E outcome \in SearchOutcomes :
       LET r == AGetRelevantDocuments(vectorstore, outcome)
       IN  /\ IF outcome = [raised |-> FALSE, hits |-> SearchHits]
                THEN UNCHANGED budget
                ELSE MayDeviate(1) /\ budget' = Deviated(1)
           /\ vectorstore' = r.store
           /\ tasks' = IF r.raised
                         THEN At(t, "error_msg")
                         ELSE [tasks EXCEPT ![t].pc = "answering", ![t].contexts = r.docs,
                                            ![t].search_error = r.error_logged]
  /\ UNCHANGED <<prep, startup, issued_before_start,
                 user_chat_histories, lists, chat_data, ragas_data_pool, running,
                 received>>

\* ANSWER: the answer-synthesis LLM call returns and with it ainvoke (595-602).
\* The answer is taken as returned, the pair is appended to the list the handler
\* holds, its last HISTORY_WINDOW messages are stored as a new list, and the
\* deletion of the "processing" message is awaited.  An exception is caught at 642.
AnswerReturns(t) ==
  /\ running = 0
  /\ tasks[t].pc = "answering"
  /\ \E out \in AnswerOutcomes :
       /\ IF UsualAnswer(tasks[t].contexts, out)
            THEN UNCHANGED budget
            ELSE MayDeviate(1) /\ budget' = Deviated(1)
       /\ IF out.raised
            THEN /\ tasks' = At(t, "error_msg")
                 /\ UNCHANGED <<user_chat_histories, lists>>
            ELSE LET c == tasks[t].chat
                     held == tasks[t].hist
                     extended == ExtendedHistory(lists[held], tasks[t].text, out.text)
                     o == FreeObj(user_chat_histories, tasks)
                     stored == [user_chat_histories EXCEPT ![c] = o]
                 IN  /\ tasks' = [tasks EXCEPT ![t].pc = "deleting", ![t].answer = out.text]
                     /\ user_chat_histories' = stored
                     /\ lists' = Collect([lists EXCEPT ![held] = extended,
                                                       ![o] = HistorySlice(extended)],
                                         stored, tasks)
  /\ UNCHANGED <<prep, startup, issued_before_start,
                 chat_data, ragas_data_pool, vectorstore, running, received>>

\* The "processing" message is deleted (602) and the answer is being sent (603).
ProcessingMsgDeleted(t) ==
  /\ running = 0
  /\ tasks[t].pc = "deleting"
  /\ \/ /\ tasks' = At(t, "replying")
        /\ UNCHANGED budget
     \/ /\ MayDeviate(1)
        /\ budget' = Deviated(1)
        /\ tasks' = At(t, "error_msg")
  /\ UNCHANGED <<prep, startup, issued_before_start,
                 user_chat_histories, lists, chat_data, ragas_data_pool, vectorstore,
                 running, received>>

\* The answer is sent (603): the interaction record is made under a fresh id
\* (605-612) and the message with the buttons is being sent (614-630).  The
\* chat service refuses an empty text, so an empty answer fails the send; a
\* failed send is caught at 642.
AnswerSent(t) ==
  /\ running = 0
  /\ tasks[t].pc = "replying"
  /\ LET c == tasks[t].chat
         id == Uuid(c, tasks[t].n)
         record == InteractionRecord(tasks[t].text, tasks[t].preprocessed, tasks[t].answer,
                                     tasks[t].contexts)
         table == IF chat_data[c].has_interactions THEN chat_data[c].interactions ELSE <<>>
     IN  \/ /\ tasks[t].answer # <<>>
            /\ tasks' = [tasks EXCEPT ![t].pc = "buttons_msg", ![t].interaction_id = id]
            /\ chat_data' = [chat_data EXCEPT ![c] =
                               [has_interactions |-> TRUE,
                                interactions |-> (id :> record) @@ table]]
            /\ UNCHANGED budget
         \/ /\ tasks[t].answer = <<>>
            /\ tasks' = At(t, "error_msg")
            /\ UNCHANGED <<chat_data, budget>>
         \/ /\ tasks[t].answer # <<>>
            /\ MayDeviate(1)
            /\ budget' = Deviated(1)
            /\ tasks' = At(t, "error_msg")
            /\ UNCHANGED chat_data
  /\ UNCHANGED <<prep, startup, issued_before_start,
                 user_chat_histories, lists, ragas_data_pool, vectorstore, running,
                 received>>

\* The message with the buttons is sent (630) and the interaction is appended
\* to ragas_data_pool (633-640); the entry reads the record's timestamp, a
\* KeyError if the record is gone, caught at 642 like a failed send.
ButtonsSent(t) ==
  /\ running = 0
  /\ tasks[t].pc = "buttons_msg"
  /\ LET c == tasks[t].chat
         id == tasks[t].interaction_id
     IN  \/ /\ id \in DOMAIN chat_data[c].interactions
            /\ tasks' = Ended(t)
            /\ lists' = Collect(lists, user_chat_histories, Ended(t))
            /\ ragas_data_pool' =
                 Append(ragas_data_pool,
                        PoolEntry(id, tasks[t].text, tasks[t].preprocessed, tasks[t].answer,
                                  tasks[t].contexts, c))
            /\ UNCHANGED budget
         \/ /\ id \notin DOMAIN chat_data[c].interactions
            /\ tasks' = At(t, "error_msg")
            /\ UNCHANGED <<lists, ragas_data_pool, budget>>
         \/ /\ MayDeviate(1)
            /\ budget' = Deviated(1)
            /\ tasks' = At(t, "error_msg")
            /\ UNCHANGED <<lists, ragas_data_pool>>
  /\ UNCHANGED <<prep, startup, issued_before_start,
                 user_chat_histories, chat_data, vectorstore, running, received>>

\* The except branch (642-647): "An internal error occurred" is sent, by
\* editing the "processing" message or, if that fails, as a new message.
ErrorMsgSent(t) ==
  /\ running = 0
  /\ tasks[t].pc = "error_msg"
  /\ tasks' = Ended(t)
  /\ lists' = Collect(lists, user_chat_histories, Ended(t))
  /\ UNCHANGED <<prep, startup, issued_before_start,
                 user_chat_histories, chat_data, ragas_data_pool, vectorstore, running,
                 received, budget>>

(***************************************************************************)
(* start_command                                                           *)
(***************************************************************************)

\* a /start that stores a new empty list and leaves the interaction table alone
StartKeepingRecords(c) ==
  /\ running = 0
  /\ budget.updates < MaxUpdates
  /\ LET o == FreeObj(user_chat_histories, tasks)
         stored == [user_chat_histories EXCEPT ![c] = o]
     IN  /\ user_chat_histories' = stored
         /\ lists' = Collect([lists EXCEPT ![o] = <<>>], stored, tasks)
  /\ UNCHANGED chat_data
  /\ issued_before_start' =
       [issued_before_start EXCEPT ![c] = @ \cup DOMAIN chat_data[c].interactions]
  /\ budget' = [budget EXCEPT !.updates = @ + 1]
  /\ UNCHANGED <<prep, startup, ragas_data_pool, vectorstore, tasks, running, received>>

\* /start in chat c (562-571): a new empty list is stored for the chat, the
\* interaction table is cleared if there is one, the greeting is sent.
StartCommand(c) ==
  /\ running = 0
  /\ budget.updates < MaxUpdates
  /\ LET o == FreeObj(user_chat_histories, tasks)
         stored == [user_chat_histories EXCEPT ![c] = o]
     IN  /\ user_chat_histories' = stored
         /\ lists' = Collect([lists EXCEPT ![o] = <<>>], stored, tasks)
  /\ chat_data' = [chat_data EXCEPT ![c].interactions = <<>>]
  /\ issued_before_start' =
       [issued_before_start EXCEPT ![c] = @ \cup DOMAIN chat_data[c].interactions]
  /\ budget' = [budget EXCEPT !.updates = @ + 1]
  /\ UNCHANGED <<prep, startup, ragas_data_pool, vectorstore, tasks, running, received>>

(***************************************************************************)
(* feedback_callback                                                       *)
(***************************************************************************)

RECURSIVE SplitOnFrom(_, _, _, _)
\* the scan of str.split(sep) for a one-character sep
SplitOnFrom(s, sep, cur, done) ==
  IF s = <<>> THEN Append(done, cur)
  ELSE IF Head(s) = sep
         THEN SplitOnFrom(Tail(s), sep, <<>>, Append(done, cur))
         ELSE SplitOnFrom(Tail(s), sep, Append(cur, Head(s)), done)

\* str.split(sep): the pieces between the separators, empty ones included
SplitOn(s, sep) == SplitOnFrom(s, sep, <<>>, <<>>)

Positive == <<"p", "o", "s", "i", "t", "i", "v", "e">>

Negative == <<"n", "e", "g", "a", "t", "i", "v", "e">>

FeedbackPrefix == <<"f", "e", "e", "d", "b", "a", "c", "k", "_">>

\* The callback data a press in chat c may carry, all matching "^feedback_":
\* the well-formed ones for the chat's latest message, and the malformed ones
\* (no id, an empty id, a part too many, a sentiment that is neither positive
\* nor negative, the id of another chat's message, an id never issued).
FeedbackPayloads(c) ==
  LET own == Uuid(c, received[c])
      foreign == {Uuid(d, received[d]) : d \in Chats \ {c}} \cup {Uuid(0, 0)}
  IN  {FeedbackPrefix \o Positive, FeedbackPrefix \o Positive \o <<"_">>,
       FeedbackPrefix \o Positive \o <<"_">> \o own \o <<"_", "x">>}
        \cup {FeedbackPrefix \o s \o <<"_">> \o own : s \in {Positive, Negative, <<"m", "e", "h">>}}
        \cup {FeedbackPrefix \o Positive \o <<"_">> \o id : id \in foreign}

\* A feedback button is pressed in chat c with callback data `data`: the
\* handler acknowledges the press (699).
FeedbackPressed(c, data) ==
  /\ running = 0
  /\ budget.updates < MaxUpdates
  /\ budget.callbacks < MaxCallbacks
  /\ \E t \in Slots : tasks[t].pc = "idle"
  /\ tasks' = [tasks EXCEPT ![FreeSlot] =
                 [NoTask EXCEPT !.pc = "answering_query", !.chat = c, !.data = data]]
  /\ budget' = [budget EXCEPT !.updates = @ + 1, !.callbacks = @ + 1]
  /\ UNCHANGED <<prep, startup, issued_before_start,
                 user_chat_histories, lists, chat_data, ragas_data_pool, vectorstore,
                 running, received>>

\* for item in ragas_data_pool: if the id matches, set the feedback; break
PoolWithFeedback(pool, id, feedback) ==
  [i \in 1..Len(pool) |->
     IF /\ pool[i].interaction_id = id
        /\ \A j \in 1..(i - 1) : pool[j].interaction_id # id
       THEN [pool[i] EXCEPT !.feedback = feedback]
       ELSE pool[i]]

\* feedback_callback from the split to the reply it sends (700-733), as
\* [chat_data, pool, reply]: the state it leaves and the text it answers with
FeedbackHandled(data, chat, pool) ==
  LET parts == SplitOn(data, "_")
  IN  IF Len(parts) # 3
        THEN [chat_data |-> chat, pool |-> pool, reply |-> "Error: Could not process feedback."]
        ELSE LET sentiment == parts[2]
                 interaction_id == parts[3]
                 feedback == [recorded |-> TRUE, sentiment |-> sentiment]
             IN  IF chat.has_interactions /\ interaction_id \in DOMAIN chat.interactions
                   THEN [chat_data |-> [chat EXCEPT !.interactions[interaction_id].feedback =
                                                      feedback],
                         pool |-> PoolWithFeedback(pool, interaction_id, feedback),
                         reply |-> IF sentiment = Positive
                                     THEN "Thanks for your feedback!"
                                     ELSE "Thanks for your feedback. We'll use this to improve."]
                   ELSE [chat_data |-> chat, pool |-> pool,
                         reply |-> "Sorry, couldn't record feedback for this message."]

\* a feedback_callback that looks the id up in the table of whichever chat
\* holds it
FeedbackInSharedTable(t) ==
  /\ running = 0
  /\ tasks[t].pc = "answering_query"
  /\ LET parts == SplitOn(tasks[t].data, "_")
         c == IF \E d \in Chats : parts[Len(parts)] \in DOMAIN chat_data[d].interactions
                THEN CHOOSE d \in Chats : parts[Len(parts)] \in DOMAIN chat_data[d].interactions
                ELSE tasks[t].chat
         r == FeedbackHandled(tasks[t].data, chat_data[c], ragas_data_pool)
     IN  /\ chat_data' = [chat_data EXCEPT ![c] = r.chat_data]
         /\ ragas_data_pool' = r.pool
         /\ tasks' = [tasks EXCEPT ![t].pc = "feedback_reply", ![t].reply = r.reply]
  /\ UNCHANGED <<prep, startup, issued_before_start,
                 user_chat_histories, lists, vectorstore, running, received, budget>>

\* The press is acknowledged (699); the handler splits the data, records the
\* feedback if it finds the record, and sends its reply (700-733).
FeedbackCallback(t) ==
  /\ running = 0
  /\ tasks[t].pc = "answering_query"
  /\ LET c == tasks[t].chat
         r == FeedbackHandled(tasks[t].data, chat_data[c], ragas_data_pool)
     IN  /\ chat_data' = [chat_data EXCEPT ![c] = r.chat_data]
         /\ ragas_data_pool' = r.pool
         /\ tasks' = [tasks EXCEPT ![t].pc = "feedback_reply", ![t].reply = r.reply]
  /\ UNCHANGED <<prep, startup, issued_before_start,
                 user_chat_histories, lists, vectorstore, running, received, budget>>

\* The reply is sent (704, 729-736) and the handler returns.
FeedbackReplySent(t) ==
  /\ running = 0
  /\ tasks[t].pc = "feedback_reply"
  /\ tasks' = Ended(t)
  /\ UNCHANGED <<prep, startup, issued_before_start,
                 user_chat_histories, lists, chat_data, ragas_data_pool, vectorstore,
                 running, received, budget>>

(***************************************************************************)
(* sources_callback                                                        *)
(***************************************************************************)

\* str.split(sep, 1) for a one-character sep: the piece before the first
\* separator and the rest, or the string alone if it holds no separator
SplitOnce(s, sep) ==
  IF \E i \in 1..Len(s) : s[i] = sep
    THEN LET i == CHOOSE k \in 1..Len(s) : s[k] = sep /\ \A j \in 1..(k - 1) : s[j] # sep
         IN  <<SubSeq(s, 1, i - 1), SubSeq(s, i + 1, Len(s))>>
    ELSE <<s>>

SourcesPrefix == <<"s", "o", "u", "r", "c", "e", "s", "_">>

\* The callback data a press of the sources button in chat c may carry, all
\* matching "^sources_": the id of the chat's latest message, the id of
\* another chat's message, an id never issued.
SourcesPayloads(c) ==
  {SourcesPrefix \o id : id \in {Uuid(d, received[d]) : d \in Chats} \cup {Uuid(0, 0)}}

\* The sources button is pressed in chat c with callback data `data`: the
\* handler acknowledges the press (651).
SourcesPressed(c, data) ==
  /\ running = 0
  /\ budget.updates < MaxUpdates
  /\ budget.callbacks < MaxCallbacks
  /\ \E t \in Slots : tasks[t].pc = "idle"
  /\ tasks' = [tasks EXCEPT ![FreeSlot] =
                 [NoTask EXCEPT !.pc = "answering_sources_query", !.chat = c, !.data = data]]
  /\ budget' = [budget EXCEPT !.updates = @ + 1, !.callbacks = @ + 1]
  /\ UNCHANGED <<prep, startup, issued_before_start,
                 user_chat_histories, lists, chat_data, ragas_data_pool, vectorstore,
                 running, received>>

\* sources_callback from the split to the text it answers with (653-686)
SourcesHandled(data, chat) ==
  LET parts == SplitOnce(data, "_")
  IN  IF Len(parts) # 2
        THEN "Error: Could not process this request."
        ELSE LET interaction_id == parts[2]
             IN  IF \/ ~chat.has_interactions
                    \/ interaction_id \notin DOMAIN chat.interactions
                    \/ chat.interactions[interaction_id].contexts_docs = <<>>
                   THEN "Sorry, the sources for this answer are no longer available."
                   ELSE "<b>Sources:</b>"

\* The press is acknowledged (651); the handler looks the record up and edits
\* the message with its text (653-689).
SourcesCallback(t) ==
  /\ running = 0
  /\ tasks[t].pc = "answering_sources_query"
  /\ tasks' = [tasks EXCEPT ![t].pc = "sources_reply",
                            ![t].reply = SourcesHandled(tasks[t].data, chat_data[tasks[t].chat])]
  /\ UNCHANGED <<prep, startup, issued_before_start,
                 user_chat_histories, lists, chat_data, ragas_data_pool, vectorstore,
                 running, received, budget>>

\* The message is edited, or sent anew if the edit fails (688-695), and the
\* handler returns.
SourcesReplySent(t) ==
  /\ running = 0
  /\ tasks[t].pc = "sources_reply"
  /\ tasks' = Ended(t)
  /\ UNCHANGED <<prep, startup, issued_before_start,
                 user_chat_histories, lists, chat_data, ragas_data_pool, vectorstore,
                 running, received, budget>>

(***************************************************************************)
(* The specifications                                                      *)
(***************************************************************************)

\* The handlers run as tasks of one event loop and may overlap: a handler
\* starts whenever the loop is free.
Next ==
  \/ \E c \in Chats : HandleTextMessage(c)
  \/ \E t \in Slots : ProcessingMsgSent(t)
  \/ \E t \in Slots : TranslationReturns(t)
  \/ \E t \in Slots : QueryWarningSent(t)
  \/ \E t \in Slots : RewriteReturns(t)
  \/ \E t \in Slots : SearchReturns(t)
  \/ \E t \in Slots : AnswerReturns(t)
  \/ \E t \in Slots : ProcessingMsgDeleted(t)
  \/ \E t \in Slots : AnswerSent(t)
  \/ \E t \in Slots : ButtonsSent(t)
  \/ \E t \in Slots : ErrorMsgSent(t)
  \/ \E c \in Chats : StartCommand(c)
  \/ \E c \in Chats : \E data \in FeedbackPayloads(c) : FeedbackPressed(c, data)
  \/ \E t \in Slots : FeedbackCallback(t)
  \/ \E t \in Slots : FeedbackReplySent(t)
  \/ \E c \in Chats : \E data \in SourcesPayloads(c) : SourcesPressed(c, data)
  \/ \E t \in Slots : SourcesCallback(t)
  \/ \E t \in Slots : SourcesReplySent(t)

Spec == Init /\ [][Next]_vars

\* The updates are handled one after the other: a handler starts only when
\* the one before it has returned.
SerialNext ==
  \/ \E c \in Chats : NoHandlerInFlight /\ HandleTextMessage(c)
  \/ \E t \in Slots : ProcessingMsgSent(t)
  \/ \E t \in Slots : TranslationReturns(t)
  \/ \E t \in Slots : QueryWarningSent(t)
  \/ \E t \in Slots : RewriteReturns(t)
  \/ \E t \in Slots : SearchReturns(t)
  \/ \E t \in Slots : AnswerReturns(t)
  \/ \E t \in Slots : ProcessingMsgDeleted(t)
  \/ \E t \in Slots : AnswerSent(t)
  \/ \E t \in Slots : ButtonsSent(t)
  \/ \E t \in Slots : ErrorMsgSent(t)
  \/ \E c \in Chats : NoHandlerInFlight /\ StartCommand(c)
  \/ \E c \in Chats : \E data \in FeedbackPayloads(c) :
       NoHandlerInFlight /\ FeedbackPressed(c, data)
  \/ \E t \in Slots : FeedbackCallback(t)
  \/ \E t \in Slots : FeedbackReplySent(t)
  \/ \E c \in Chats : \E data \in SourcesPayloads(c) :
       NoHandlerInFlight /\ SourcesPressed(c, data)
  \/ \E t \in Slots : SourcesCallback(t)
  \/ \E t \in Slots : SourcesReplySent(t)

SerialSpec == Init /\ [][SerialNext]_vars

\* The same with text messages and /start commands as the only updates.
TurnsNext ==
  \/ \E c \in Chats : NoHandlerInFlight /\ HandleTextMessage(c)
  \/ \E t \in Slots : ProcessingMsgSent(t)
  \/ \E t \in Slots : TranslationReturns(t)
  \/ \E t \in Slots : QueryWarningSent(t)
  \/ \E t \in Slots : RewriteReturns(t)
  \/ \E t \in Slots : SearchReturns(t)
  \/ \E t \in Slots : AnswerReturns(t)
  \/ \E t \in Slots : ProcessingMsgDeleted(t)
  \/ \E t \in Slots : AnswerSent(t)
  \/ \E t \in Slots : ButtonsSent(t)
  \/ \E t \in Slots : ErrorMsgSent(t)
  \/ \E c \in Chats : NoHandlerInFlight /\ StartCommand(c)

TurnsSpec == Init /\ [][TurnsNext]_vars

(***************************************************************************)
(* Properties of the chat handlers                                         *)
(*                                                                         *)
(* SerialSpec is the bot as telegram_bot_runner builds it: the Application *)
(* handles one update at a time; TurnsSpec is SerialSpec with text         *)
(* messages and /start commands only.  Spec is the same handlers under a   *)
(* host that lets them overlap.                                            *)
(***************************************************************************)

\* the stored history of chat c
StoredHistory(c) == lists[user_chat_histories[c]]

\* the step in which the answer-synthesis call of task t returns an answer
AnswerStep(t) == tasks[t].pc = "answering" /\ tasks'[t].pc = "deleting"

\* C1: after any sequence of /start commands and text messages, answered or
\* failed, every stored history holds at most 20 messages, and the history
\* stored after an answer is the last 20 messages of the history before it
\* followed by the question and the answer.
HistoryKeepsLastTwenty ==
  /\ [](\A c \in Chats :
          user_chat_histories[c] # NoList => Len(StoredHistory(c)) <= HISTORY_WINDOW)
  /\ [][\A t \in Slots :
          AnswerStep(t) =>
            LET c == tasks[t].chat
            IN  lists'[user_chat_histories'[c]] =
                  LastN(StoredHistory(c) \o <<HumanMessage(tasks[t].text),
                                              AIMessage(tasks'[t].answer)>>,
                        HISTORY_WINDOW)]_vars

\* The first chat has had two more turns answered than the window holds: its
\* history is full and its oldest turns are gone.
HistoryTruncated ==
  /\ NoHandlerInFlight
  /\ received[1] = PriorTurns + 2
  /\ Len(StoredHistory(1)) = HISTORY_WINDOW
  /\ StoredHistory(1)[1] = HumanMessage(UserText(2))
  /\ StoredHistory(1)[HISTORY_WINDOW - 1] = HumanMessage(UserText(PriorTurns + 2))

\* whether no /start has been handled in the first chat: the records of its
\* prior turns are still in its table
NotReset == Uuid(1, 1) \in DOMAIN chat_data[1].interactions

\* whether question and answer are two consecutive messages of the history
HasPair(history, question, answer) ==
  \E i \in 1..(Len(history) - 1) :
    history[i] = HumanMessage(question) /\ history[i + 1] = AIMessage(answer)

\* whether every message the first chat has received was answered and logged
\* to the pool: every handler of the chat has completed successfully
AllTurnsCompleted ==
  \A n \in 1..received[1] :
    \E i \in 1..Len(ragas_data_pool) : ragas_data_pool[i].interaction_id = Uuid(1, n)

ExternalCalls == {"translating", "rewriting", "retrieving", "answering"}

\* C3: every external call made while handling a message is a suspension
\* point: the handler that waits for it does not hold the event loop, so the
\* handlers of other chats can run.
ExternalCallsSuspend ==
  \A t \in Slots : tasks[t].pc \in ExternalCalls => running # t

\* C4: whenever retrieval yields no context chunk, the answer the handler
\* delivers and stores is the fallback sentence, whatever the LLM returned.
FallbackWhenNoContext ==
  \A t \in Slots :
    (tasks[t].pc \in {"deleting", "replying", "buttons_msg"} /\ tasks[t].contexts = <<>>)
      => /\ tasks[t].answer = FALLBACK_SENTENCE
         /\ HasPair(lists[tasks[t].hist], tasks[t].text, FALLBACK_SENTENCE)

\* C5: if the search raises, on the blocking or the non-blocking path, the
\* retriever returns an empty list and does not raise, and the pipeline goes on
\* to the answer synthesis with an empty context, not to the error path.
SearchFailureGivesEmptyContext ==
  /\ [](\A outcome \in SearchOutcomes :
          outcome.raised =>
            /\ GetRelevantDocuments(vectorstore, outcome).docs = <<>>
            /\ ~GetRelevantDocuments(vectorstore, outcome).raised)
  /\ [][\A t \in Slots :
          (tasks[t].pc = "retrieving" /\ tasks'[t].pc # "retrieving") =>
            /\ tasks'[t].pc = "answering"
            /\ tasks'[t].search_error => tasks'[t].contexts = <<>>]_vars

\* The search of a message has raised and the answer synthesis is under way
\* with an empty context.
AnsweringAfterSearchFailure ==
  \E t \in Slots :
    tasks[t].pc = "answering" /\ tasks[t].search_error /\ tasks[t].contexts = <<>>

\* Callback data is malformed for chat c if it lacks an id, has a part too
\* many, names a sentiment other than positive and negative, or carries an id
\* with no record in the chat.
Malformed(c, data) ==
  LET parts == SplitOn(data, "_")
  IN  \/ Len(parts) # 3
      \/ parts[2] \notin {Positive, Negative}
      \/ parts[3] \notin DOMAIN chat_data[c].interactions

\* C10: a feedback callback with a malformed payload is answered with a
\* message and changes nothing: no record's feedback, no history, no pool entry.
MalformedFeedbackChangesNothing ==
  [][\A t \in Slots :
       (/\ tasks[t].pc = "answering_query"
        /\ tasks'[t].pc = "feedback_reply"
        /\ Malformed(tasks[t].chat, tasks[t].data))
         => /\ tasks'[t].reply # ""
            /\ chat_data' = chat_data
            /\ ragas_data_pool' = ragas_data_pool
            /\ user_chat_histories' = user_chat_histories
            /\ lists' = lists]_vars

(***************************************************************************)
(* Properties of preprocess_query_for_retrieval                            *)
(***************************************************************************)

\* C6: the synonym step is idempotent: applied to its own output, the primary
\* text followed by the appended synonyms, it appends nothing more.
SynonymStepIdempotent ==
  prep.pc = "reapplied" => prep.again = {}

\* the tokens of a query with their punctuation stripped, lower-cased
CleanedTokens(query) == {Lower(FilterAlnum(tok)) : tok \in Range(Split(query))}

\* C7: a synonym is appended only if the query does not already hold it
\* (case-insensitively, punctuation stripped from the query's tokens), and no
\* synonym is appended twice.
OnlyAbsentSynonymsAppended ==
  prep.pc = "returned" =>
    /\ \A syn \in prep.appended : Lower(syn) \notin CleanedTokens(prep.user_query)
    /\ \A s1, s2 \in prep.appended : Lower(s1) = Lower(s2) => s1 = s2

\* the letters of the Cyrillic script
CyrillicLetters == RussianLower \cup RussianUpper \cup CyrillicOtherLower \cup CyrillicOtherUpper

HasLetterOf(query, letters) == \E i \in 1..Len(query) : query[i] \in letters

\* whether the call has got past the language test
LanguageTested == prep.llm /\ prep.pc \in {"translating", "returned", "reapplied"}

\* the direction asked for is out of the language found
DirectionFollows ==
  prep.instruction = IF prep.is_russian THEN "Russian to English" ELSE "English to Russian"

BlankQueryReturnsOriginal ==
  (prep.pc = "returned" /\ prep.llm /\ Strip(prep.final) = <<>>)
    => prep.result = prep.user_query

(***************************************************************************)
(* Properties of the session reset and of the chats' independence          *)
(***************************************************************************)

\* the well-formed callback data that carry an id recorded before the last
\* /start of chat c
StaleData(c) ==
  UNION {{SourcesPrefix \o id, FeedbackPrefix \o Positive \o <<"_">> \o id,
          FeedbackPrefix \o Negative \o <<"_">> \o id} : id \in issued_before_start[c]}

\* the callback in slot t takes its step from the lookup to its reply
CallbackStep(t) ==
  /\ tasks[t].pc \in {"answering_query", "answering_sources_query"}
  /\ tasks'[t].pc \in {"feedback_reply", "sources_reply"}

\* C11: interaction records are destroyed when the session is cleared.  Right
\* after /start in a chat its stored history is empty and its interaction table
\* holds no record; no id recorded before the chat's last /start has a record
\* again; a sources or feedback callback that carries such an id changes no
\* record and no pool entry, and answers that the sources are no longer
\* available, or that the feedback could not be recorded.
ResetDestroysRecords ==
  /\ [](\A c \in Chats :
          issued_before_start[c] \cap DOMAIN chat_data[c].interactions = {})
  /\ [][\A c \in Chats :
          StartCommand(c) => /\ lists'[user_chat_histories'[c]] = <<>>
                             /\ chat_data'[c].interactions = <<>>]_vars
  /\ [][\A t \in Slots :
          CallbackStep(t) /\ tasks[t].data \in StaleData(tasks[t].chat)
            => /\ chat_data' = chat_data
               /\ ragas_data_pool' = ragas_data_pool
               /\ tasks'[t].reply =
                    IF tasks[t].pc = "answering_sources_query"
                      THEN "Sorry, the sources for this answer are no longer available."
                      ELSE "Sorry, couldn't record feedback for this message."]_vars

\* A sources callback has answered a press that carried an id recorded before
\* the chat's /start.
StaleSourcesAnswered ==
  \E t \in Slots :
    /\ tasks[t].pc = "sources_reply"
    /\ tasks[t].data \in StaleData(tasks[t].chat)
    /\ tasks[t].reply = "Sorry, the sources for this answer are no longer available."

\* what user_chat_histories holds for chat c: whether it has a key, and the
\* messages of its list
HistoryEntry(c) ==
  [present |-> user_chat_histories[c] # NoList,
   messages |-> IF user_chat_histories[c] = NoList THEN <<>> ELSE lists[user_chat_histories[c]]]

\* the step is one of a handler of chat c: a task of the chat starts, moves or
\* ends, or /start is handled for the chat
HandlerStepOf(c) ==
  \/ \E t \in Slots : /\ tasks'[t] # tasks[t]
                      /\ c \in {tasks[t].chat, tasks'[t].chat}
  \/ StartCommand(c)

\* C12: chats are independent.  Under every interleaving of the handlers, a
\* step that changes the stored history or the interaction table of a chat is
\* a step of a handler of that chat: handling a /start, a text message or a
\* callback of chat A changes neither of any other chat B.
ChatsIndependent ==
  [][\A b \in Chats :
       (HistoryEntry(b)' # HistoryEntry(b) \/ chat_data'[b] # chat_data[b])
         => HandlerStepOf(b) /\ \A a \in Chats \ {b} : ~HandlerStepOf(a)]_vars

\* Handlers of two chats are in flight together: one has stored its turn and
\* made its record, the other is still waiting for its answer.
TwoChatsInterleaved ==
  \E t, u \in Slots :
    /\ tasks[t].chat # tasks[u].chat
    /\ tasks[t].pc = "buttons_msg"
    /\ tasks[u].pc = "answering"
    /\ tasks[t].interaction_id \in DOMAIN chat_data[tasks[t].chat].interactions
    /\ StoredHistory(tasks[u].chat) = lists[tasks[u].hist]

(***************************************************************************)
(* Document ingestion: docs_from_s3_files and get_documents                *)
(***************************************************************************)

\* str.endswith(suffix)
EndsWith(s, suffix) ==
  /\ Len(suffix) <= Len(s)
  /\ SubSeq(s, Len(s) - Len(suffix) + 1, Len(s)) = suffix

\* sub in s
Contains(s, sub) ==
  \E i \in 1..(Len(s) - Len(sub) + 1) : SubSeq(s, i, i + Len(sub) - 1) = sub

\* [x for x in xs if keep(x)] for a list of object keys
RECURSIVE RagFiles(_)
RagFiles(all_files) ==
  IF all_files = <<>> THEN <<>>
  ELSE LET x == Head(all_files)
           rest == RagFiles(Tail(all_files))
       IN  IF ~EndsWith(x, <<"/">>)
              /\ ~Contains(x, <<".", "i", "p", "y", "n", "b", "_", "c", "h", "e", "c", "k",
                                "p", "o", "i", "n", "t", "s">>)
             THEN <<x>> \o rest
             ELSE rest

\* the object keys of the sample bucket, in the order the listing gives them
KeyPool ==
  <<<<"p", "/">>,
    <<"p", "/", ".", "i", "p", "y", "n", "b", "_", "c", "h", "e", "c", "k", "p", "o", "i",
      "n", "t", "s", "/", "a">>,
    <<"p", "/", "a">>,
    <<"p", "/", "b">>>>

\* the subsequence of s at the positions in `at`
RECURSIVE Pick(_, _, _)
Pick(s, at, i) ==
  IF i > Len(s) THEN <<>>
  ELSE (IF i \in at THEN <<s[i]>> ELSE <<>>) \o Pick(s, at, i + 1)

\* what a bucket may hold: any of the sample keys
Buckets == {Pick(KeyPool, at, 1) : at \in SUBSET (1..Len(KeyPool))}

\* file_path.split('/')[-1]
BaseName(key) == LET parts == SplitOn(key, "/") IN parts[Len(parts)]

\* What the LLM's answer for one loaded item leads to: a JSON object with a
\* title and topics, a JSON object without them, text that is not JSON, no
\* answer, or an exception (the JSON is not an object, or the request raises
\* something ask_llm_for_metadata does not catch).
MetadataOutcomes == {"titled", "untitled", "not_json", "empty", "raises"}

\* the title and topics set at 204-217
MetadataDict(key, m) ==
  CASE m = "titled"   -> [title |-> <<"llm title">>, topics |-> "llm topics"]
    [] m = "untitled" -> [title |-> <<"File ">> \o BaseName(key), topics |-> "not defined"]
    [] m = "not_json" -> [title |-> <<"Metadata error for ">> \o BaseName(key),
                          topics |-> "not defined"]
    [] m = "empty"    -> [title |-> <<"No LLM metadata for ">> \o BaseName(key),
                          topics |-> "not defined"]

\* the n-th item the loader returns for a key, with the metadata of 216-218
EnrichedDocument(key, n, m) ==
  [page_content |-> [error |-> FALSE, key |-> key, part |-> n],
   metadata |-> [source |-> key, title |-> MetadataDict(key, m).title,
                 topics |-> MetadataDict(key, m).topics, source_file_key |-> key]]

\* the Document of the except branch (222-225)
PlaceholderDocument(key) ==
  [page_content |-> [error |-> TRUE, key |-> key, part |-> 0],
   metadata |-> [source |-> key, title |-> <<"Error Document">>, topics |-> "error",
                 source_file_key |-> key]]

\* What fetching and processing one key may do: the load raises, or it gives
\* items (none, one, or two of which the first gets its metadata), each with
\* an outcome of its metadata extraction.
FileOutcomes ==
  {[load_raises |-> TRUE, items |-> <<>>], [load_raises |-> FALSE, items |-> <<>>]}
    \cup {[load_raises |-> FALSE, items |-> <<m>>] : m \in MetadataOutcomes}
    \cup {[load_raises |-> FALSE, items |-> <<"titled", m>>] : m \in MetadataOutcomes}

\* without an LLM ask_llm_for_metadata returns "" at once (140-142)
FileOutcomesWith(has_llm) ==
  {o \in FileOutcomes : has_llm \/ \A n \in DOMAIN o.items : o.items[n] = "empty"}

\* the documents one pass of the loop body appends for a key (186-225): the
\* items processed before an exception, then the placeholder
RECURSIVE ItemsProcessed(_, _, _)
ItemsProcessed(key, items, n) ==
  IF n > Len(items) THEN <<>>
  ELSE IF items[n] = "raises"
         THEN <<PlaceholderDocument(key)>>
         ELSE <<EnrichedDocument(key, n, items[n])>> \o ItemsProcessed(key, items, n + 1)

\* a loop body that drops the key whose processing raised
ProcessedWithoutPlaceholder(key, outcome) ==
  IF outcome.load_raises THEN <<>>
  ELSE SelectSeq(ItemsProcessed(key, outcome.items, 1), LAMBDA d : ~d.page_content.error)

ProcessedFrom(key, outcome) ==
  IF outcome.load_raises THEN <<PlaceholderDocument(key)>>
  ELSE ItemsProcessed(key, outcome.items, 1)

\* whether processing a key with this outcome raised inside the try block
Raised(outcome) ==
  outcome.load_raises \/ \E n \in DOMAIN outcome.items : outcome.items[n] = "raises"

\* the documents of the sample artifact
ArtifactDocuments == <<EnrichedDocument(KeyPool[3], 1, "titled")>>

\* What the serialized artifact may be: no file, a file of zero bytes, a file
\* that does not parse, the serialized empty list, serialized documents.
Artifacts == {"missing", "zero_bytes", "corrupt", "empty_list", "documents"}

\* reading and parsing the artifact (231-242): the documents, or nothing
LoadedFromArtifact(force, artifact) ==
  IF ~force /\ artifact = "documents" THEN ArtifactDocuments ELSE <<>>

\* the lists of keys docs_from_s3_files is called with directly
MaxFiles == 2

FileLists == UNION {[1..n -> {KeyPool[3], KeyPool[4]}] : n \in 0..MaxFiles}

\* the locals and the surroundings of an ingestion run
IngestStart(pc, entry, has_llm, force, artifact, s3_client, prefix_set, bucket, files) ==
  [pc |-> pc, entry |-> entry, llm |-> has_llm, force |-> force, artifact |-> artifact,
   artifact_at_call |-> artifact, s3_client |-> s3_client, prefix_set |-> prefix_set,
   bucket |-> bucket, files |-> files, outcomes |-> <<>>, processed_docs |-> <<>>,
   touched_s3 |-> FALSE, loaded_artifact |-> FALSE, result |-> <<>>]

\* get_documents is called at startup (769), or docs_from_s3_files is called
\* with a list of keys.
IngestInit ==
  /\ BotStart([c \in Chats |-> 0])
  /\ prep = NoPrep
  /\ \/ \E has_llm \in BOOLEAN, force \in BOOLEAN, artifact \in Artifacts,
           s3_client \in BOOLEAN, prefix_set \in BOOLEAN, bucket \in Buckets :
          startup = IngestStart("get_documents", "get_documents", has_llm, force, artifact,
                                s3_client, prefix_set, bucket, <<>>)
     \/ \E has_llm \in BOOLEAN, s3_client \in BOOLEAN, files \in FileLists :
          startup = IngestStart("docs_from_s3_files", "docs_from_s3_files", has_llm, FALSE,
                                "missing", s3_client, TRUE, <<>>, files)

\* get_documents returns docs
Returned(s, docs) == [s EXCEPT !.pc = "returned", !.result = docs]

\* get_documents up to the listing (229-249): the artifact is used if the
\* flag is off and it loads to something; else, without a client, a bucket
\* and a prefix, nothing is returned.
GetDocuments ==
  /\ startup.pc = "get_documents"
  /\ LET docs == LoadedFromArtifact(startup.force, startup.artifact)
     IN  startup' =
           IF docs # <<>>
             THEN [Returned(startup, docs) EXCEPT !.loaded_artifact = TRUE]
             ELSE IF ~startup.s3_client \/ ~startup.prefix_set
                    THEN Returned(startup, <<>>)
                    ELSE [startup EXCEPT !.pc = "list_objects"]
  /\ UNCHANGED <<prep, botvars>>

\* The listing (250-259): it raises, or it gives the keys under the prefix, of
\* which the directories and the notebook checkpoints are left out.
ListObjects ==
  /\ startup.pc = "list_objects"
  /\ \E raises \in BOOLEAN :
       LET rag_files == RagFiles(startup.bucket)
           listed == [startup EXCEPT !.touched_s3 = TRUE]
       IN  startup' =
             IF raises \/ rag_files = <<>>
               THEN Returned(listed, <<>>)
               ELSE [listed EXCEPT !.pc = "docs_from_s3_files", !.files = rag_files]
  /\ UNCHANGED <<prep, botvars>>

\* What follows the return of docs_from_s3_files: its caller's result, and in
\* get_documents the saving of the artifact (260-276), which may fail before
\* the file is opened or after it was truncated.
AfterDocsFromS3Files(s, docs) ==
  IF s.entry = "docs_from_s3_files" \/ docs = <<>>
    THEN {Returned(s, docs)}
    ELSE {[Returned(s, docs) EXCEPT !.artifact = a] :
            a \in {"documents", s.artifact, "zero_bytes"}}

\* docs_from_s3_files is entered (178-184): without a client or a bucket it
\* returns the empty list.
DocsFromS3FilesCalled ==
  /\ startup.pc = "docs_from_s3_files"
  /\ IF startup.s3_client
       THEN startup' = [startup EXCEPT !.pc = "for_file_path"]
       ELSE startup' \in AfterDocsFromS3Files(startup, <<>>)
  /\ UNCHANGED <<prep, botvars>>

\* One pass of the loop (184-225): the next key is fetched and processed.
ProcessFile ==
  /\ startup.pc = "for_file_path"
  /\ Len(startup.outcomes) < Len(startup.files)
  /\ \E outcome \in FileOutcomesWith(startup.llm) :
       LET file_path == startup.files[Len(startup.outcomes) + 1]
       IN  startup' = [startup EXCEPT
                         !.outcomes = Append(@, outcome),
                         !.processed_docs = @ \o ProcessedFrom(file_path, outcome),
                         !.touched_s3 = TRUE]
  /\ UNCHANGED <<prep, botvars>>

\* The loop is over and docs_from_s3_files returns (226).
DocsFromS3FilesReturn ==
  /\ startup.pc = "for_file_path"
  /\ Len(startup.outcomes) = Len(startup.files)
  /\ startup' \in AfterDocsFromS3Files(startup, startup.processed_docs)
  /\ UNCHANGED <<prep, botvars>>

IngestNext ==
  \/ GetDocuments
  \/ ListObjects
  \/ DocsFromS3FilesCalled
  \/ ProcessFile
  \/ DocsFromS3FilesReturn

IngestSpec == IngestInit /\ [][IngestNext]_vars

(***************************************************************************)
(* Properties of the ingestion                                             *)
(***************************************************************************)

\* the flag is off and the artifact exists, parses and holds documents
ArtifactUsable == ~startup.force /\ startup.artifact_at_call = "documents"

\* C13: with object storage configured (credentials, endpoint and bucket),
\* when get_documents has returned, it has loaded the artifact and not
\* touched object storage if and only if the force-refresh flag is off and the
\* artifact exists, parses and is non-empty; in every other case the ingestion
\* has run again from object storage; and with an empty artifact (zero bytes or
\* an empty list) the result is not empty while the bucket holds files.
ArtifactLoadedIffUsable ==
  (startup.pc = "returned" /\ startup.entry = "get_documents" /\ startup.s3_client)
    => /\ (startup.loaded_artifact /\ ~startup.touched_s3) <=> ArtifactUsable
       /\ ~ArtifactUsable => startup.touched_s3
       /\ (/\ startup.artifact_at_call \in {"zero_bytes", "empty_list"}
           /\ RagFiles(startup.bucket) # <<>>)
            => startup.result # <<>>

\* the documents are in key order: they can be assigned to positions of the
\* key list, each to a position holding its key, without ever going back
InKeyOrder(docs, files) ==
  \E at \in [1..Len(docs) -> 1..Len(files)] :
    /\ \A j \in 1..Len(docs) : files[at[j]] = docs[j].metadata.source_file_key
    /\ \A j \in 1..(Len(docs) - 1) : at[j] <= at[j + 1]

\* C14: per-object error isolation in docs_from_s3_files.  Whatever the list
\* of keys and whatever happens to each key: a key whose fetching or
\* processing raised has a placeholder Document in the result (its content
\* records the error, its source_file_key is the key); the items of every key
\* that were processed appear in the result; the result is in key order; and
\* the function returns only after the last key, with all of that as its result.
PerObjectErrorIsolation ==
  LET docs == startup.processed_docs
      files == startup.files
      outcomes == startup.outcomes
  IN  startup.pc \in {"for_file_path", "returned"}
        => /\ \A i \in 1..Len(outcomes) :
                Raised(outcomes[i])
                  => \E j \in 1..Len(docs) :
                       /\ docs[j].page_content = [error |-> TRUE, key |-> files[i], part |-> 0]
                       /\ docs[j].metadata.source_file_key = files[i]
           /\ \A i \in 1..Len(outcomes) :
                \A n \in 1..Len(outcomes[i].items) :
                  (\A m \in 1..n : outcomes[i].items[m] # "raises")
                    => \E j \in 1..Len(docs) :
                         /\ docs[j].page_content = [error |-> FALSE, key |-> files[i], part |-> n]
                         /\ docs[j].metadata.source_file_key = files[i]
           /\ \A j \in 1..Len(docs) :
                docs[j].page_content.error
                  => \E i \in 1..Len(outcomes) :
                       Raised(outcomes[i]) /\ files[i] = docs[j].metadata.source_file_key
           /\ docs = <<>> \/ InKeyOrder(docs, files)
           /\ (startup.pc = "returned" /\ startup.s3_client /\ files # <<>>)
                => /\ Len(outcomes) = Len(files)
                   /\ startup.result = docs

\* docs_from_s3_files has returned for two keys: the first failed and has its
\* placeholder, the second was processed after it and its document follows.
BatchWentOnAfterFailure ==
  /\ startup.pc = "returned"
  /\ startup.entry = "docs_from_s3_files"
  /\ Len(startup.files) = 2
  /\ Len(startup.outcomes) = 2
  /\ Raised(startup.outcomes[1])
  /\ ~Raised(startup.outcomes[2])
  /\ Len(startup.result) = 2
  /\ startup.result[1].page_content.error
  /\ startup.result[1].metadata.source_file_key = startup.files[1]
  /\ ~startup.result[2].page_content.error
  /\ startup.result[2].metadata.source_file_key = startup.files[2]

(***************************************************************************)
(* initialize_vectorstore                                                  *)
(***************************************************************************)

\* no store handle
NoHandle == [none |-> TRUE]

\* the chunks of the sample documents
SampleChunks == {<<"chunk 1">>, <<"chunk 1", "chunk 2">>}

\* the index named OS_INDEX_NAME on the search engine: whether it exists, what
\* was bulk-loaded into it when it was last created, what it held before
OldIndex == [exists |-> TRUE, loaded |-> <<"old chunk">>]

NoIndex == [exists |-> FALSE, loaded |-> <<>>]

\* the locals and the surroundings of a run of initialize_vectorstore
VsStart(enabled, has_embeddings, has_creds, force, documents_to_index, index) ==
  [enabled |-> enabled, embeddings |-> has_embeddings, db_creds |-> has_creds,
   force |-> force, documents_to_index |-> documents_to_index, index |-> index,
   index_at_call |-> index, index_exists |-> FALSE, ping_answer |-> "none", ops |-> <<>>,
   handle |-> NoHandle, vs |-> NoHandle]

\* initialize_vectorstore is called with chunks to index.
VsInit ==
  /\ BotStart([c \in Chats |-> 0])
  /\ prep = NoPrep
  /\ \E enabled \in BOOLEAN, has_embeddings \in BOOLEAN, has_creds \in BOOLEAN,
        force \in BOOLEAN, chunks \in SampleChunks, index \in {OldIndex, NoIndex} :
       startup = [pc |-> "initialize_vectorstore", entry |-> "initialize_vectorstore"]
                   @@ VsStart(enabled, has_embeddings, has_creds, force, chunks, index)

\* initialize_vectorstore returns v
VsReturned(s, v) == [s EXCEPT !.pc = "vs_returned", !.vs = v]

\* the request is issued: it is added to the requests the search engine has seen
Issued(s, op) == [s EXCEPT !.ops = Append(@, op)]

\* Up to the liveness probe (289-317): without the switch, the embeddings or
\* the credentials nothing is returned; else the client is made and pinged.
InitializeVectorstore ==
  /\ startup.pc = "initialize_vectorstore"
  /\ startup' =
       IF ~startup.enabled \/ ~startup.embeddings \/ ~startup.db_creds
         THEN VsReturned(startup, NoHandle)
         ELSE [Issued(startup, "ping") EXCEPT !.pc = "ping"]
  /\ UNCHANGED <<prep, botvars>>

\* a probe whose answer is not looked at
PingIgnored ==
  /\ startup.pc = "ping"
  /\ \E answer \in {"true", "false", "raises"} :
       startup' = IF answer # "raises"
                    THEN [Issued(startup, "info") EXCEPT !.pc = "info", !.ping_answer = answer]
                    ELSE VsReturned([startup EXCEPT !.ping_answer = answer], NoHandle)
  /\ UNCHANGED <<prep, botvars>>

\* The probe answers (317-320): false or an exception ends the function with
\* no handle; true and the cluster info is requested.
PingReturns ==
  /\ startup.pc = "ping"
  /\ \E answer \in {"true", "false", "raises"} :
       startup' = IF answer = "true"
                    THEN [Issued(startup, "info") EXCEPT !.pc = "info", !.ping_answer = answer]
                    ELSE VsReturned([startup EXCEPT !.ping_answer = answer], NoHandle)
  /\ UNCHANGED <<prep, botvars>>

\* The cluster info arrives, or the request raises (320-322, 366-368).
InfoReturns ==
  /\ startup.pc = "info"
  /\ \E raises \in BOOLEAN :
       startup' = IF raises
                    THEN VsReturned(startup, NoHandle)
                    ELSE [Issued(startup, "exists") EXCEPT !.pc = "exists"]
  /\ UNCHANGED <<prep, botvars>>

\* The exists check answers (322-359) and the branch is taken: delete, create
\* and load, attach, or give up.
ExistsReturns ==
  /\ startup.pc = "exists"
  /\ \E raises \in BOOLEAN :
       LET index_exists == startup.index.exists
           known == [startup EXCEPT !.index_exists = index_exists]
       IN  startup' =
             IF raises THEN VsReturned(startup, NoHandle)
             ELSE IF /\ startup.documents_to_index # <<>>
                     /\ (~index_exists \/ startup.force)
                    THEN IF index_exists /\ startup.force
                           THEN [Issued(known, "delete") EXCEPT !.pc = "delete"]
                           ELSE [Issued(known, "from_documents") EXCEPT !.pc = "from_documents"]
                    ELSE IF index_exists
                           THEN [Issued(known, "attach") EXCEPT !.pc = "attach"]
                           ELSE VsReturned(known, NoHandle)
  /\ UNCHANGED <<prep, botvars>>

\* The index is deleted, or the request raises (327-330).
DeleteReturns ==
  /\ startup.pc = "delete"
  /\ \E raises \in BOOLEAN :
       startup' = IF raises
                    THEN VsReturned(startup, NoHandle)
                    ELSE [Issued(startup, "from_documents") EXCEPT
                            !.pc = "from_documents", !.index = NoIndex]
  /\ UNCHANGED <<prep, botvars>>

\* a function end that returns the store as the library made it
ReturnedAsBuilt(s, built) == VsReturned([s EXCEPT !.handle = built], built)

\* The end of the function (361-364): the handle gets is_hybrid_search = True
\* and is returned.
ReturnedHybrid(s, built) ==
  LET hybrid == [built EXCEPT !.is_hybrid_search = TRUE]
  IN  VsReturned([s EXCEPT !.handle = hybrid], hybrid)

\* OpenSearchVectorSearch.from_documents returns (330-343, 361-364): the index
\* is created and all chunks are loaded, or it raises, with the index created
\* or not.
FromDocumentsReturns ==
  /\ startup.pc = "from_documents"
  /\ \/ \E flag \in BOOLEAN :
          LET created == [exists |-> TRUE, loaded |-> startup.documents_to_index]
          IN  startup' = ReturnedHybrid([startup EXCEPT !.index = created],
                                        [none |-> FALSE, is_hybrid_search |-> flag,
                                         index |-> created])
     \/ \E created \in BOOLEAN :
          startup' = VsReturned([startup EXCEPT !.index =
                                   IF created /\ ~startup.index.exists
                                     THEN [exists |-> TRUE, loaded |-> <<>>]
                                     ELSE @],
                                NoHandle)
  /\ UNCHANGED <<prep, botvars>>

\* The OpenSearchVectorSearch constructor returns (346-356, 361-364), or raises.
AttachReturns ==
  /\ startup.pc = "attach"
  /\ \/ \E flag \in BOOLEAN :
          startup' = ReturnedHybrid(startup, [none |-> FALSE, is_hybrid_search |-> flag,
                                              index |-> startup.index])
     \/ startup' = VsReturned(startup, NoHandle)
  /\ UNCHANGED <<prep, botvars>>

VsNext ==
  \/ InitializeVectorstore
  \/ PingReturns
  \/ InfoReturns
  \/ ExistsReturns
  \/ DeleteReturns
  \/ FromDocumentsReturns
  \/ AttachReturns

VsSpec == VsInit /\ [][VsNext]_vars

(***************************************************************************)
(* Properties of initialize_vectorstore                                    *)
(***************************************************************************)

\* the requests about the index among the requests issued, in order
IndexOps(ops) == SelectSeq(ops, LAMBDA op : op \in {"exists", "delete", "from_documents", "attach"})

\* C15: the index policy.  When initialize_vectorstore returns a handle: with
\* the index absent it has created it and bulk-loaded all chunks; with the
\* index present and the flag set it has deleted it, then created it and
\* bulk-loaded all chunks; with the index present and the flag unset it has
\* attached, without deleting or loading anything.  In every run, also one
\* that fails, it deletes only a present index under the flag, and with the
\* index present and the flag unset the index stays as it was.  Every handle
\* returned has is_hybrid_search = True.
IndexPolicyFollowed ==
  LET s == startup
      was == s.index_at_call
  IN  /\ (s.pc = "vs_returned" /\ s.vs # NoHandle)
           => /\ s.vs.is_hybrid_search = TRUE
              /\ ~was.exists
                   => /\ IndexOps(s.ops) = <<"exists", "from_documents">>
                      /\ s.index = [exists |-> TRUE, loaded |-> s.documents_to_index]
              /\ (was.exists /\ s.force)
                   => /\ IndexOps(s.ops) = <<"exists", "delete", "from_documents">>
                      /\ s.index = [exists |-> TRUE, loaded |-> s.documents_to_index]
              /\ (was.exists /\ ~s.force)
                   => /\ IndexOps(s.ops) = <<"exists", "attach">>
                      /\ s.index = was
      /\ s.entry = "initialize_vectorstore"
           => /\ (\E i \in DOMAIN s.ops : s.ops[i] = "delete") => was.exists /\ s.force
              /\ (was.exists /\ ~s.force)
                   => /\ s.index = was
                      /\ \A i \in DOMAIN s.ops : s.ops[i] \notin {"delete", "from_documents"}

\* A handle was returned after the present index was deleted and created anew.
IndexRebuilt ==
  /\ startup.pc = "vs_returned"
  /\ startup.vs # NoHandle
  /\ startup.index_at_call = OldIndex
  /\ startup.ops = <<"ping", "info", "exists", "delete", "from_documents">>
  /\ startup.index.loaded = startup.documents_to_index

\* C16: no request about the index (exists check, delete, create and bulk
\* load, attach) is issued before the liveness probe has answered true; if the
\* probe answers false or raises, the function has returned no handle and has
\* issued nothing but that one probe; the probe is never issued twice.
ProbeBeforeIndexOps ==
  LET s == startup
  IN  s.entry = "initialize_vectorstore"
        => /\ IndexOps(s.ops) # <<>>
                => /\ s.ping_answer = "true"
                   /\ s.ops[1] = "ping"
           /\ s.ping_answer \in {"false", "raises"}
                => /\ s.pc = "vs_returned"
                   /\ s.vs = NoHandle
                   /\ s.ops = <<"ping">>
                   /\ s.index = s.index_at_call
           /\ Len(SelectSeq(s.ops, LAMBDA op : op = "ping")) <= 1

\* The probe answered false and the function returned no handle.
ProbeFailed ==
  /\ startup.pc = "vs_returned"
  /\ startup.ping_answer = "false"
  /\ startup.vs = NoHandle

(***************************************************************************)
(* The startup run (__main__)                                              *)
(***************************************************************************)

\* text_splitter.split_documents: a document gives chunks unless its text is
\* empty; the placeholder of a failed key always has text
SplitDocuments(documents, blank) ==
  LET kept == SelectSeq(documents, LAMBDA d : d.page_content.error \/ ~blank)
  IN  [j \in 1..Len(kept) |-> [chunk_of |-> kept[j].page_content]]

\* the buckets of the startup runs: empty, or holding one file
StartupBuckets == {<<>>, <<KeyPool[3]>>}

\* The process starts (60-135, 767-769): the credential files give or do not
\* give the LLM key, the search-engine credentials, the object-storage
\* credentials with the bucket, the prefix and the bot token; llm and
\* embeddings are set with the LLM key, s3_client with the object-storage
\* credentials.  get_documents is called.
StartupInit ==
  /\ BotStart([c \in Chats |-> 0])
  /\ prep = NoPrep
  /\ \E llm_creds \in BOOLEAN, db_creds \in BOOLEAN, s3_creds \in BOOLEAN,
        prefix_set \in BOOLEAN, tg_token \in BOOLEAN, force \in BOOLEAN,
        artifact \in Artifacts, bucket \in StartupBuckets, index \in {OldIndex, NoIndex} :
       startup = [tg_token |-> tg_token, rag_chain |-> FALSE, documents |-> <<>>,
                  docs_splitted |-> <<>>]
                   @@ IngestStart("get_documents", "main", llm_creds, force, artifact, s3_creds,
                                  prefix_set, bucket, <<>>)
                   @@ VsStart(TRUE, llm_creds, db_creds, force, <<>>, index)

\* the process ends without the bot
Exited(s) == [s EXCEPT !.pc = "exited"]

\* get_documents has returned (769-785): without documents, or without chunks,
\* the process exits; else initialize_vectorstore is called with the chunks.
DocumentsObtained ==
  /\ startup.entry = "main"
  /\ startup.pc = "returned"
  /\ \E blank \in BOOLEAN :
       LET documents == startup.result
           docs_splitted == SplitDocuments(documents, blank)
           split == [startup EXCEPT !.documents = documents, !.docs_splitted = docs_splitted]
       IN  startup' =
             IF documents = <<>> THEN Exited(startup)
             ELSE IF docs_splitted = <<>> THEN Exited(split)
             ELSE [split EXCEPT !.pc = "initialize_vectorstore",
                                !.documents_to_index = docs_splitted]
  /\ UNCHANGED <<prep, botvars>>

\* a startup whose bot runner polls without looking at the chain or the token
RunnerWithoutChecks ==
  /\ startup.entry = "main"
  /\ startup.pc = "vs_returned"
  /\ startup' = IF startup.vs = NoHandle
                  THEN Exited(startup)
                  ELSE [startup EXCEPT !.pc = "polling", !.rag_chain = startup.llm]
  /\ UNCHANGED <<prep, botvars>>

\* initialize_vectorstore has returned (785-798, 432-487, 748-764): without a
\* handle the process exits; initialize_rag_chain gives no chain without an
\* LLM and the process exits; else telegram_bot_runner is called, which
\* returns without a token and else builds the Application and polls.
VectorstoreObtained ==
  /\ startup.entry = "main"
  /\ startup.pc = "vs_returned"
  /\ startup' =
       IF startup.vs = NoHandle THEN Exited(startup)
       ELSE IF ~startup.llm THEN Exited(startup)
       ELSE IF ~startup.tg_token THEN [startup EXCEPT !.pc = "ended", !.rag_chain = TRUE]
       ELSE [startup EXCEPT !.pc = "polling", !.rag_chain = TRUE]
  /\ UNCHANGED <<prep, botvars>>

StartupNext ==
  \/ GetDocuments
  \/ ListObjects
  \/ DocsFromS3FilesCalled
  \/ ProcessFile
  \/ DocsFromS3FilesReturn
  \/ DocumentsObtained
  \/ InitializeVectorstore
  \/ PingReturns
  \/ InfoReturns
  \/ ExistsReturns
  \/ DeleteReturns
  \/ FromDocumentsReturns
  \/ AttachReturns
  \/ VectorstoreObtained

StartupSpec == StartupInit /\ [][StartupNext]_vars

(***************************************************************************)
(* Properties of the startup run                                           *)
(***************************************************************************)

\* documents, chunks, vector store and RAG chain have all been obtained
AllObtained ==
  /\ startup.documents # <<>>
  /\ startup.docs_splitted # <<>>
  /\ startup.vs # NoHandle
  /\ startup.index.exists
  /\ startup.rag_chain

\* C17 as stated: the bot polls only in a run in which no required
\* configuration is missing (LLM, search-engine, object-storage with its
\* bucket, chat-bot credentials) and after documents, chunks, vector store and
\* RAG chain were all obtained.
ConfigurationErrorsFatal ==
  startup.pc = "polling"
    => /\ startup.llm
       /\ startup.db_creds
       /\ startup.s3_client
       /\ startup.tg_token
       /\ AllObtained

\* C17 as amended: the bot polls only in a run in which the LLM, the
\* search-engine and the chat-bot credentials are present, in which the
\* object-storage credentials and the bucket are present unless the documents
\* came from the serialized artifact, and after documents, chunks, vector
\* store and RAG chain were all obtained.
NeededConfigurationErrorsFatal ==
  startup.pc = "polling"
    => /\ startup.llm
       /\ startup.db_creds
       /\ startup.tg_token
       /\ startup.s3_client \/ (startup.loaded_artifact /\ ~startup.touched_s3)
       /\ AllObtained

\* The bot polls in a run without object-storage credentials: the documents
\* came from the artifact.
PollingWithoutObjectStorage ==
  /\ startup.pc = "polling"
  /\ ~startup.s3_client
  /\ startup.loaded_artifact

(***************************************************************************)
(* The Hybrid Retriever over any store handle                              *)
(***************************************************************************)

\* the number of retriever calls of a run
MaxSearches == 2

\* the handles a retriever may be made over
Handles ==
  {[engine |-> "lucene", is_hybrid_search |-> TRUE],
   [engine |-> "lucene", is_hybrid_search |-> FALSE],
   [engine |-> "lucene"]}

\* A retriever is made over a handle whose is_hybrid_search is True, False or
\* not there, and whose class has or has not the coroutine
\* asimilarity_search_with_score.
RetrieverInit ==
  /\ BotStart([c \in Chats |-> 0])
  /\ prep = NoPrep
  /\ \E store \in Handles, has_async \in BOOLEAN :
       startup = [pc |-> "retriever_idle", entry |-> "retriever", store |-> store,
                  has_async |-> has_async, searches |-> <<>>, returned |-> <<>>]

\* What a run remembers of a search (what each call returned is remembered
\* in `returned`): the path, the flag as the call found it,
\* the handle as the search found it
SearchIssued(path, found, searched) ==
  [path |-> path, found |-> FlagOn(found), searched |-> searched]

\* _get_relevant_documents is called (381-398): the blocking path, the whole
\* call.
RetrieverCall ==
  /\ startup.pc = "retriever_idle"
  /\ Len(startup.searches) < MaxSearches
  /\ \E outcome \in SearchOutcomes :
       LET r == GetRelevantDocuments(startup.store, outcome)
       IN  startup' = [startup EXCEPT
                         !.store = r.store,
                         !.searches = Append(@, SearchIssued("blocking", startup.store,
                                                             r.searched)),
                         !.returned = Append(@, [docs |-> r.docs,
                                                 error_logged |-> r.error_logged])]
  /\ UNCHANGED <<prep, botvars>>

\* _aget_relevant_documents is called (400-424): the flag is ensured and the
\* search is awaited, the store's coroutine or the blocking search in the
\* executor.
RetrieverAsyncCall ==
  /\ startup.pc = "retriever_idle"
  /\ Len(startup.searches) < MaxSearches
  /\ LET ensured == HybridEnsured(startup.store)
     IN  startup' = [startup EXCEPT
                       !.pc = "awaiting_search",
                       !.store = ensured,
                       !.searches = Append(@, SearchIssued(IF startup.has_async
                                                             THEN "coroutine"
                                                             ELSE "executor",
                                                           startup.store, ensured))]
  /\ UNCHANGED <<prep, botvars>>

\* The awaited search returns or raises and _aget_relevant_documents returns
\* (408-428).
RetrieverAsyncReturns ==
  /\ startup.pc = "awaiting_search"
  /\ \E outcome \in SearchOutcomes :
       LET r == AGetRelevantDocuments(startup.store, outcome)
       IN  startup' = [startup EXCEPT
                         !.pc = "retriever_idle",
                         !.store = r.store,
                         !.returned = Append(@, [docs |-> r.docs,
                                                 error_logged |-> r.error_logged])]
  /\ UNCHANGED <<prep, botvars>>

RetrieverNext == RetrieverCall \/ RetrieverAsyncCall \/ RetrieverAsyncReturns

RetrieverSpec == RetrieverInit /\ [][RetrieverNext]_vars

\* C18: the Hybrid Retriever never issues a search against a handle whose
\* hybrid-search flag is off: on the blocking and on the non-blocking path
\* every search finds is_hybrid_search = True on the handle, also when the
\* call found it False or absent, and the flag is True after every call.
SearchOnlyWithHybridFlag ==
  startup.entry = "retriever"
    => /\ \A i \in DOMAIN startup.searches :
            FlagOn(startup.searches[i].searched)
       /\ startup.searches # <<>> => FlagOn(startup.store)

\* A call on the non-blocking path has found the flag off or absent, has
\* searched with it on, and has returned.
FlagForcedBeforeSearch ==
  /\ startup.entry = "retriever"
  /\ startup.pc = "retriever_idle"
  /\ \E i \in DOMAIN startup.searches :
       /\ ~startup.searches[i].found
       /\ startup.searches[i].path # "blocking"
       /\ FlagOn(startup.searches[i].searched)

(***************************************************************************)
(* Properties of the history under failures and resets                     *)
(***************************************************************************)

\* the handler run of message n of chat c is over or on its error path
RunOverOrFailed(c, n) ==
  \A t \in Slots : (tasks[t].chat = c /\ tasks[t].n = n) => tasks[t].pc = "error_msg"

\* C19: a chat's history changes only for a message that is answered
\* successfully.  While handle_text_message is on its error path (it is about
\* to show "An internal error occurred") the chat's stored history is what it
\* was when the handler took it; and the question of every run that is over or
\* on its error path is in the stored history only if the run's interaction
\* record is in the chat's table.
HistoryChangesOnlyWhenAnswered ==
  /\ \A t \in Slots :
       tasks[t].pc = "error_msg"
         => HistoryEntry(tasks[t].chat).messages = tasks[t].history_before
  /\ \A c \in Chats : \A n \in 1..received[c] :
       (/\ RunOverOrFailed(c, n)
        /\ \E i \in DOMAIN HistoryEntry(c).messages :
             HistoryEntry(c).messages[i] = HumanMessage(UserText(n)))
         => Uuid(c, n) \in DOMAIN chat_data[c].interactions

\* the stored history of chat c holds a message of a turn answered before
\* the chat's last /start: the question of a run whose record the /start removed
HoldsTurnFromBeforeStart(c) ==
  \E i \in DOMAIN HistoryEntry(c).messages : \E n \in 1..received[c] :
    /\ Uuid(c, n) \in issued_before_start[c]
    /\ HistoryEntry(c).messages[i] = HumanMessage(UserText(n))

K_MAX == 5

\* len(final_text) > 4096
MESSAGE_LIMIT == 4096

\* final_text[:4090]
KEPT_PREFIX == 4090

\* lengths of the long title, of the long object key's stem and of the query
\* part of a presigned URL
LongTitle == 300
LongKey == 400
SignatureLength == 350

\* n copies of the string s
RECURSIVE Repeat(_, _)
Repeat(s, n) ==
  IF n = 0 THEN ""
  ELSE LET half == Repeat(s, n \div 2)
       IN  half \o half \o (IF n % 2 = 1 THEN s ELSE "")

\* The context documents of an interaction record: a chunk with the metadata
\* docs_from_s3_files sets (216-218), one whose metadata has a source but no
\* title and no source_file_key, chunks of files with long titles and keys,
\* a second chunk of the first file, and an object without metadata.
ContextDocs ==
  {[title |-> "Leave policy", source_file_key |-> "docs/hr/leave_policy.pdf"],
   [title |-> "Leave policy, part 2", source_file_key |-> "docs/hr/leave_policy.pdf"],
   [source |-> "docs/travel.txt"],
   [title |-> Repeat("t", LongTitle),
    source_file_key |-> "docs/" \o Repeat("a", LongKey) \o ".pdf"],
   [title |-> Repeat("u", LongTitle),
    source_file_key |-> "archive/" \o Repeat("b", LongKey) \o ".pdf"],
   [no_metadata |-> TRUE]}

\* sequences of at most n elements of S
RECURSIVE SeqsUpTo(_, _)
SeqsUpTo(S, n) ==
  IF n = 0 THEN {<<>>}
  ELSE LET shorter == SeqsUpTo(S, n - 1)
       IN  shorter \cup {Append(s, x) : s \in {q \in shorter : Len(q) = n - 1}, x \in S}

\* generate_s3_presigned_url (546-559): None without a client or a bucket and
\* when signing raises, else the signed URL of the key
GenerateS3PresignedUrl(object_key, signing) ==
  IF signing = "signed"
    THEN "https://rag-bucket.s3.amazonaws.com/" \o object_key
           \o "?" \o Repeat("x", SignatureLength)
    ELSE ""

\* s3_key.split('/')[-1]
DocFilename(s3_key) ==
  LET slashes == {i \in 1..Len(s3_key) : SubSeq(s3_key, i, i) = "/"}
  IN  IF slashes = {} THEN s3_key
      ELSE LET last == CHOOSE i \in slashes : \A j \in slashes : j <= i
           IN  SubSeq(s3_key, last + 1, Len(s3_key))

\* mtd.get('title', 'Unknown Document') (670)
TitleOf(mtd) == IF "title" \in DOMAIN mtd THEN mtd.title ELSE "Unknown Document"

\* mtd.get('source_file_key', mtd.get('source')) (671); "" stands for None,
\* which `if s3_key` treats alike
S3KeyOf(mtd) ==
  IF "source_file_key" \in DOMAIN mtd THEN mtd.source_file_key
  ELSE IF "source" \in DOMAIN mtd THEN mtd.source
  ELSE ""

\* the entry of one document (675-677)
SourceEntry(mtd, signing) ==
  LET s3_key == S3KeyOf(mtd)
      presigned_url == GenerateS3PresignedUrl(s3_key, signing)
      entry == "# <b>" \o TitleOf(mtd) \o "</b> (File: " \o DocFilename(s3_key) \o ")"
  IN  IF presigned_url # ""
        THEN entry \o "\\n   <a href='" \o presigned_url
               \o "'>To see the document (link active for 1 hour)</a>"
        ELSE entry \o "\\n   (Link unavailable)"

\* unique_s3_keys_info after the loop over the first n documents (666-678):
\* the keys in the order they were first met, each with its entry
RECURSIVE UniqueS3KeysInfo(_, _, _)
UniqueS3KeysInfo(contexts_docs, n, signing) ==
  IF n = 0 THEN <<>>
  ELSE LET before == UniqueS3KeysInfo(contexts_docs, n - 1, signing)
           doc_obj == contexts_docs[n]
           s3_key == S3KeyOf(doc_obj)
       IN  IF /\ "no_metadata" \notin DOMAIN doc_obj
              /\ s3_key # ""
              /\ \A i \in DOMAIN before : before[i].s3_key # s3_key
             THEN Append(before, [s3_key |-> s3_key,
                                  entry |-> SourceEntry(doc_obj, signing)])
             ELSE before

\* sources_output_list (665, 680-683)
SourcesOutputList(contexts_docs, signing) ==
  LET info == UniqueS3KeysInfo(contexts_docs, Len(contexts_docs), signing)
  IN  IF info = <<>>
        THEN <<"<b>Sources:</b>", "No specific document sources were identified.">>
        ELSE <<"<b>Sources:</b>">>
               \o [i \in DOMAIN info |-> ToString(i) \o ". " \o info[i].entry]

\* "\\n\\n".join(sources_output_list) (685)
RECURSIVE JoinedFrom(_, _)
JoinedFrom(list, n) ==
  IF n = 1 THEN list[1] ELSE JoinedFrom(list, n - 1) \o "\\n\\n" \o list[n]

\* final_text[:4090] + "\\n...(list truncated)" when the joined text is longer
\* than 4096 characters (686)
Truncated(final_text) ==
  IF Len(final_text) > MESSAGE_LIMIT
    THEN SubSeq(final_text, 1, KEPT_PREFIX) \o "\\n...(list truncated)"
    ELSE final_text

\* final_text as it is sent (685-686)
FinalText(contexts_docs, signing) ==
  LET list == SourcesOutputList(contexts_docs, signing)
  IN  Truncated(JoinedFrom(list, Len(list)))

\* A sources button is pressed on an answer whose record holds contexts_docs
\* (661 has let it pass); the press is acknowledged (651).
SourcesTextInit ==
  /\ BotStart([c \in Chats |-> 0])
  /\ prep = NoPrep
  /\ \E contexts_docs \in SeqsUpTo(ContextDocs, K_MAX) \ {<<>>} :
     \E signing \in {"signed", "unconfigured"} :
       startup = [pc |-> "answering_sources_query", entry |-> "sources_callback",
                  contexts_docs |-> contexts_docs, signing |-> signing,
                  joined_length |-> 0, edited |-> <<>>, sent |-> <<>>]

\* The handler builds final_text (665-686) and asks for the message to be
\* edited (688-689).
SourcesTextBuilt ==
  /\ startup.pc = "answering_sources_query"
  /\ LET list == SourcesOutputList(startup.contexts_docs, startup.signing)
     IN  startup' = [startup EXCEPT
                       !.pc = "editing",
                       !.joined_length = Len(JoinedFrom(list, Len(list))),
                       !.edited = <<FinalText(startup.contexts_docs, startup.signing)>>]
  /\ UNCHANGED <<prep, botvars>>

\* edit_message_text returns, and the handler is over, or raises (690-691)
SourcesEditReturns ==
  /\ startup.pc = "editing"
  /\ \E raises \in BOOLEAN :
       startup' = [startup EXCEPT !.pc = IF raises THEN "sending_new" ELSE "done"]
  /\ UNCHANGED <<prep, botvars>>

\* the same final_text is sent as a new message (692-695)
SourcesSentAnew ==
  /\ startup.pc = "sending_new"
  /\ startup' = [startup EXCEPT !.pc = "done", !.sent = startup.edited]
  /\ UNCHANGED <<prep, botvars>>

SourcesTextNext == SourcesTextBuilt \/ SourcesEditReturns \/ SourcesSentAnew

SourcesTextSpec == SourcesTextInit /\ [][SourcesTextNext]_vars

\* C21: for any number of context documents and any title, key and URL
\* lengths, every text sources_callback hands to edit_message_text or to
\* send_message is at most 4096 characters long, also when the text was cut
\* and the truncation marker appended.
SourcesTextWithinLimit ==
  startup.entry = "sources_callback"
    => \A i \in DOMAIN (startup.edited \o startup.sent) :
         Len((startup.edited \o startup.sent)[i]) <= MESSAGE_LIMIT
=============================================================================
